---- MODULE Spec2Model ----
(***************************************************************************)
(* Event/venue server actions of fastbreak-takehome.                       *)
(*                                                                         *)
(* src/lib/actions/event.actions.ts holds two implementations of the       *)
(* event actions: plain async functions that validate, then authenticate   *)
(* (lines 55-343, here variant "direct"), and actions built by             *)
(* createAction of action-wrapper.ts (lines 565-759, here variant          *)
(* "wrapped").  A deployment runs one of them; `variant` is fixed by Init. *)
(*                                                                         *)
(* Storage is the Postgres schema of the SQL migration (src/unnamed/       *)
(* part_001): primary and foreign keys, ON DELETE CASCADE and the          *)
(* row-level-security policies.  Every awaited storage call is one step of *)
(* the calling request; requests interleave at those steps.                *)
(***************************************************************************)
EXTENDS Naturals, Sequences, FiniteSets, TLC

VARIABLES variant, events, venues, links, accounts, profiles, sessions, nextEventId, nextVenueId, calls, requests

vars == <<variant, events, venues, links, accounts, profiles, sessions,
          nextEventId, nextVenueId, calls, requests>>

store == <<events, venues, links>>

(***************************************************************************)
(* Bounds of the model.                                                    *)
(***************************************************************************)
MaxEvents == 2
MaxVenues == 2
MaxRequests == 2

(***************************************************************************)
(* Values.  A JSON object is a function from its keys to strings; a key    *)
(* that is absent is `undefined`.  Null is SQL NULL / JS null, NotAString  *)
(* a JSON value that is not a string.                                      *)
(***************************************************************************)
Null == "<null>"
NotAString == "<number>"
\* a value that is not a string and is falsy: the number 0
Zero == "<0>"
NonStrings == {NotAString, Zero}
NoUser == "<no user>"
Undefined == "<undefined>"
NoData == [undefined |-> TRUE]
NoRow == [none |-> TRUE]

Users == {"u1", "u2"}
Calls == {"c1", "c2"}
Variants == {"direct", "wrapped"}

Has(o, k) == k \in DOMAIN o

EventId(n) == "e" \o ToString(n)
VenueId(n) == "v" \o ToString(n)

\* what z.string().uuid() accepts among the strings the model uses
UuidStrings == {EventId(n) : n \in 1..(MaxEvents + 2)} \cup {VenueId(n) : n \in 1..(MaxVenues + 2)}

IsUuid(s) == s \in UuidStrings

LongName ==
  "aaaaaaaaaaaaaaaaaaaaaaaaaaaaaaaaaaaaaaaaaaaaaaaaaaaaaaaaaaaaaaaa" \o
  "aaaaaaaaaaaaaaaaaaaaaaaaaaaaaaaaaaaaaaaaaaaaaaaaaaaaaaaaaaaaaaaa" \o
  "aaaaaaaaaaaaaaaaaaaaaaaaaaaaaaaaaaaaaaaaaaaaaaaaaaaaaaaaaaaaaaaa" \o
  "aaaaaaaaaaaaaaaaaaaaaaaaaaaaaaaaaaaaaaaaaaaaaaaaaaaaaaaaaaaaaaaa"

(***************************************************************************)
(* Validation schemas (zod).  An issue is a path and a message; messages   *)
(* the source does not set are the defaults of zod 3.  An input that is    *)
(* not an object is `undefined`: one issue with an empty path.             *)
(***************************************************************************)
Issue(path, msg) == [path |-> path, message |-> msg]

RequiredMsg == "Required"
NotStringMsg == "Expected string, received number"
TooLongMsg == "String must contain at most 255 character(s)"
InvalidUuidMsg == "Invalid uuid"

\* z.string().min(1, minMsg)
ZStringMin1(o, k, prefix, minMsg) ==
  IF ~Has(o, k) THEN <<Issue(prefix \o <<k>>, RequiredMsg)>>
  ELSE IF o[k] \in NonStrings THEN <<Issue(prefix \o <<k>>, NotStringMsg)>>
  ELSE IF Len(o[k]) < 1 THEN <<Issue(prefix \o <<k>>, minMsg)>>
  ELSE <<>>

\* .max(255) on a value that is a string
ZStringMax(o, k, max) ==
  IF Has(o, k) /\ o[k] \notin NonStrings /\ Len(o[k]) > max
  THEN <<Issue(<<k>>, TooLongMsg)>>
  ELSE <<>>

\* z.string().optional()
ZStringOptional(o, k, prefix) ==
  IF Has(o, k) /\ o[k] \in NonStrings
  THEN <<Issue(prefix \o <<k>>, NotStringMsg)>>
  ELSE <<>>

\* z.string().uuid()
ZUuid(o, k) ==
  IF ~Has(o, k) THEN <<Issue(<<k>>, RequiredMsg)>>
  ELSE IF o[k] \in NonStrings THEN <<Issue(<<k>>, NotStringMsg)>>
  ELSE IF ~IsUuid(o[k]) THEN <<Issue(<<k>>, InvalidUuidMsg)>>
  ELSE <<>>

NameMaxLen == 255

venueSchema(v, prefix) ==
  ZStringOptional(v, "id", prefix)
    \o ZStringMin1(v, "name", prefix, "Venue name is required")
    \o ZStringOptional(v, "address", prefix)
    \o ZStringOptional(v, "city", prefix)
    \o ZStringOptional(v, "state", prefix)

RECURSIVE VenueArrayIssues(_, _)
VenueArrayIssues(vs, i) ==
  IF i > Len(vs) THEN <<>>
  ELSE venueSchema(vs[i], <<"venues", ToString(i - 1)>>) \o VenueArrayIssues(vs, i + 1)

\* z.array(venueSchema).min(1, ...)
ZVenues(o) ==
  IF ~Has(o, "venues") THEN <<Issue(<<"venues">>, RequiredMsg)>>
  ELSE IF Len(o.venues) < 1
       THEN <<Issue(<<"venues">>, "At least one venue is required")>>
  ELSE VenueArrayIssues(o.venues, 1)

EventFieldIssues(o) ==
  ZStringMin1(o, "name", <<>>, "Event name is required")
    \o ZStringMax(o, "name", NameMaxLen)
    \o ZStringMin1(o, "sport_type", <<>>, "Sport type is required")
    \o ZStringMin1(o, "date_time", <<>>, "Date and time are required")
    \o ZStringOptional(o, "description", <<>>)
    \o ZVenues(o)

createEventSchema(o) == EventFieldIssues(o)

updateEventSchema(o) == ZUuid(o, "id") \o EventFieldIssues(o)

deleteEventSchema(o) == ZUuid(o, "id")

getEventsSchema(o) == ZStringOptional(o, "search", <<>>) \o ZStringOptional(o, "sportType", <<>>)

\* the issues of schema.parse / schema.safeParse for the action `op`
SchemaIssues(op, arg) ==
  IF arg.type # "object" THEN <<Issue(<<>>, RequiredMsg)>>
  ELSE CASE op = "create" -> createEventSchema(arg.obj)
         [] op = "update" -> updateEventSchema(arg.obj)
         [] op = "delete" -> deleteEventSchema(arg.obj)
         [] op = "getEvents" -> getEventsSchema(arg.obj)

\* ZodError.flatten().fieldErrors: the messages of the issues with a
\* non-empty path, grouped by the first path element, in issue order
RECURSIVE MessagesAt(_, _)
MessagesAt(issues, key) ==
  IF issues = <<>> THEN <<>>
  ELSE LET h == Head(issues)
       IN (IF Len(h.path) > 0 /\ Head(h.path) = key THEN <<h.message>> ELSE <<>>)
            \o MessagesAt(Tail(issues), key)

FlattenFieldErrors(issues) ==
  LET keys == {Head(issues[i].path) : i \in {j \in 1..Len(issues) : Len(issues[j].path) > 0}}
  IN [k \in keys |-> MessagesAt(issues, k)]

(***************************************************************************)
(* Action results (ActionResponse).                                        *)
(***************************************************************************)
Ok(data) == [success |-> TRUE, data |-> data]
OkMsg(data, msg) == [success |-> TRUE, data |-> data, message |-> msg]
Err(msg) == [success |-> FALSE, error |-> msg]
ErrFields(msg, fe) == [success |-> FALSE, error |-> msg, fieldErrors |-> fe]

(***************************************************************************)
(* createAction (action-wrapper.ts): the options of the three mutating     *)
(* actions, identity resolution, the success result and the catch-all.     *)
(***************************************************************************)
Options(op) ==
  CASE op = "create" -> [schema |-> TRUE, requireAuth |-> TRUE,
                         successMessage |-> "Event created successfully"]
    [] op = "update" -> [schema |-> TRUE, requireAuth |-> TRUE,
                         successMessage |-> "Event updated successfully"]
    [] op = "delete" -> [schema |-> TRUE, requireAuth |-> TRUE,
                         successMessage |-> "Event deleted successfully"]
    [] op = "getEvents" -> [schema |-> TRUE, requireAuth |-> FALSE]
    [] op = "getEventById" -> [schema |-> FALSE, requireAuth |-> FALSE]

\* outcomes of supabase.auth.getUser(): a user, no user, a reported error, a throw
Identities ==
  {[kind |-> "user", user |-> u] : u \in Users}
    \cup {[kind |-> k, user |-> NoUser] : k \in {"none", "error", "throw"}}

\* getUser of supabase/server.ts: null on an error and on a throw
getUser(idn) == IF idn.kind = "user" THEN idn.user ELSE NoUser

\* faults a storage call can throw: an Error with a message, an Error with an
\* empty message, a thrown value that is not an Error
Faults ==
  { [isError |-> TRUE, message |-> "fetch failed"],
    [isError |-> TRUE, message |-> ""],
    [isError |-> FALSE, message |-> "fetch failed"] }

NewError(msg) == [isError |-> TRUE, message |-> msg]

\* JS values that are not objects: null, a string
JsNull == [null |-> TRUE]
JsString(s) == [string |-> s]

\* `result && ...`: undefined, null and the empty string are falsy
Truthy(v) ==
  /\ ~Has(v, "undefined")
  /\ ~Has(v, "null")
  /\ ~(Has(v, "string") /\ v.string = "")

\* typeof v === 'object'
IsObject(v) == ~Has(v, "undefined") /\ ~Has(v, "string")

IsResultWithMessage(v) == Truthy(v) /\ IsObject(v) /\ Has(v, "data") /\ Has(v, "message")

\* fault injection: the handler's own message is never used
CreateActionSuccessStatic(options, value) ==
  IF Has(options, "successMessage") /\ options.successMessage # ""
  THEN [success |-> TRUE, data |-> value, message |-> options.successMessage]
  ELSE [success |-> TRUE, data |-> value]

\* lines 91-110: the result for a handler that returned `value`
CreateActionSuccess(options, value) ==
  IF IsResultWithMessage(value)
  THEN OkMsg(value.data,
             IF value.message \notin {"", Undefined, Null} THEN value.message
             ELSE IF Has(options, "successMessage") THEN options.successMessage
             ELSE Undefined)
  ELSE IF Has(options, "successMessage") /\ options.successMessage # ""
       THEN OkMsg(value, options.successMessage)
       ELSE Ok(value)

\* fault injection: a wrapper without the outermost catch; the fault reaches
\* the caller as a rejected promise
CreateActionRethrow(fault) == [rejected |-> fault]

\* lines 155-170: the outermost catch
CreateActionCatch(fault) ==
  IF fault.isError
  THEN Err(IF fault.message # "" THEN fault.message ELSE "An unexpected error occurred")
  ELSE Err("An unexpected error occurred. Please try again.")

AuthRequiredWrapped == "Authentication required. Please log in."
AuthRequiredDirect == "Authentication required"
ValidationFailed == "Validation failed"
InvalidEventId == "Invalid event ID"
UnexpectedError == "An unexpected error occurred"

SuccessMessage(op) == Options(op).successMessage

(***************************************************************************)
(* How a request ends, in either implementation.                           *)
(***************************************************************************)
\* the code reached an explicit failure: `throw new Error(msg)` in a
\* createAction handler, `return {success: false, error: msg}` in a direct one
Failed(msg) ==
  IF variant = "wrapped" THEN CreateActionCatch(NewError(msg)) ELSE Err(msg)

\* a call threw `fault`: createAction's catch, or the function's own catch
Threw(fault) ==
  IF variant = "wrapped" THEN CreateActionCatch(fault) ELSE Err(UnexpectedError)

\* the handler returned `value`
Returned(op, value) ==
  IF variant = "wrapped" THEN CreateActionSuccess(Options(op), value)
  ELSE OkMsg(value, SuccessMessage(op))

(***************************************************************************)
(* Requests.  pc names the storage call the request is awaiting.           *)
(***************************************************************************)
IdleCall ==
  [pc |-> "idle", op |-> "", idn |-> [kind |-> "none", user |-> NoUser],
   user |-> NoUser, arg |-> [type |-> "undefined"], input |-> <<>>,
   ev |-> NoRow, i |-> 0, venueId |-> "", effects |-> {},
   revalidated |-> FALSE, parsed |-> FALSE, invoked |-> FALSE,
   rows |-> <<>>, tasks |-> <<>>, queries |-> {},
   fault |-> "none", result |-> [pending |-> TRUE]]

Effect(table, kind, id) == [table |-> table, kind |-> kind, id |-> id]

Done(r, result) == [r EXCEPT !.pc = "done", !.result = result]

\* the request remembers the worst outcome its storage calls had: "none",
\* a reported "error", a "throw"
Noted(r, o) == IF o.kind = "ok" THEN r ELSE [r EXCEPT !.fault = o.kind]

OrNull(o, k) == IF Has(o, k) /\ o[k] # "" THEN o[k] ELSE Null

\* `if (!venueId)`: the venue carries no id, or an empty one
NoVenueId(v) == ~Has(v, "id") \/ v.id = ""

\* the venue loop from venue i on, up to the next storage call; after the last
\* venue: revalidatePath('/dashboard') and `return event`
LoopFrom(r, i) ==
  IF i > Len(r.input.venues)
  THEN Done([r EXCEPT !.revalidated = TRUE, !.i = i], Returned(r.op, r.ev))
  ELSE IF NoVenueId(r.input.venues[i])
       THEN [r EXCEPT !.pc = "insertVenue", !.i = i, !.venueId = ""]
       ELSE [r EXCEPT !.pc = "insertLink", !.i = i, !.venueId = r.input.venues[i].id]

\* schema.parse's output: the known keys of the input
ParseVenue(v) ==
  [k \in DOMAIN v \cap {"id", "name", "address", "city", "state"} |-> v[k]]

Parse(op, o) ==
  LET keys == IF op = "delete" THEN {"id"}
              ELSE IF op = "update"
                   THEN {"id", "name", "sport_type", "date_time", "description", "venues"}
                   ELSE {"name", "sport_type", "date_time", "description", "venues"}
  IN [k \in DOMAIN o \cap keys |->
        IF k = "venues" THEN [j \in 1..Len(o.venues) |-> ParseVenue(o.venues[j])]
        ELSE o[k]]

FirstPc(op) ==
  CASE op = "create" -> "insertEvent"
    [] op = "update" -> IF variant = "wrapped" THEN "fetchOwner" ELSE "updateEvent"
    [] op = "delete" -> "deleteEvent"

\* fault injection: a wrapper that skips the identity check
WrappedEntryNoGate(r, op, idn, arg) ==
  LET user == getUser(idn)
      issues == SchemaIssues(op, arg)
      r1 == [r EXCEPT !.op = op, !.idn = idn, !.arg = arg, !.user = user]
  IN IF Options(op).schema /\ issues # <<>>
     THEN Done([r1 EXCEPT !.parsed = TRUE],
               ErrFields(ValidationFailed, FlattenFieldErrors(issues)))
     ELSE [r1 EXCEPT !.parsed = TRUE, !.invoked = TRUE,
                     !.input = Parse(op, arg.obj), !.pc = FirstPc(op)]

\* fault injection: a wrapper that parses the schema before it resolves the identity
WrappedEntryValidateFirst(r, op, idn, arg) ==
  LET user == getUser(idn)
      issues == SchemaIssues(op, arg)
      r1 == [r EXCEPT !.op = op, !.idn = idn, !.arg = arg, !.parsed = TRUE]
  IN IF Options(op).schema /\ issues # <<>>
     THEN Done(r1, ErrFields(ValidationFailed, FlattenFieldErrors(issues)))
     ELSE IF Options(op).requireAuth /\ user = NoUser
          THEN Done(r1, Err(AuthRequiredWrapped))
          ELSE [r1 EXCEPT !.user = user, !.invoked = TRUE,
                          !.input = Parse(op, arg.obj), !.pc = FirstPc(op)]

\* createAction lines 56-89: identity, then schema, then the handler
WrappedEntry(r, op, idn, arg) ==
  LET user == getUser(idn)
      issues == SchemaIssues(op, arg)
      r1 == [r EXCEPT !.op = op, !.idn = idn, !.arg = arg, !.user = user]
  IN IF Options(op).requireAuth /\ user = NoUser
     THEN Done(r1, Err(AuthRequiredWrapped))
     ELSE IF Options(op).schema /\ issues # <<>>
          THEN Done([r1 EXCEPT !.parsed = TRUE],
                    ErrFields(ValidationFailed, FlattenFieldErrors(issues)))
          ELSE [r1 EXCEPT !.parsed = TRUE, !.invoked = TRUE,
                          !.input = Parse(op, arg.obj), !.pc = FirstPc(op)]

\* event.actions.ts lines 58-85, 170-197, 287-310: safeParse, then identity
DirectEntry(r, op, idn, arg) ==
  LET issues == SchemaIssues(op, arg)
      r1 == [r EXCEPT !.op = op, !.idn = idn, !.arg = arg, !.parsed = TRUE]
  IN IF issues # <<>>
     THEN Done(r1, IF op = "delete" THEN Err(InvalidEventId)
                   ELSE ErrFields(ValidationFailed, FlattenFieldErrors(issues)))
     ELSE IF idn.kind = "throw" THEN Done(r1, Err(UnexpectedError))
     ELSE IF idn.kind # "user" THEN Done(r1, Err(AuthRequiredDirect))
     ELSE [r1 EXCEPT !.user = idn.user, !.invoked = TRUE,
                     !.input = Parse(op, arg.obj), !.pc = FirstPc(op)]

(***************************************************************************)
(* Storage: the tables, keys and row-level-security policies of the SQL    *)
(* migration.  uid is auth.uid() of the request's session.                 *)
(***************************************************************************)
PolicyEventsInsert(row, uid) == uid # NoUser /\ uid = row.user_id
PolicyEventsUpdate(e, uid) == uid # NoUser /\ uid = e.user_id
PolicyEventsDelete(e, uid) == uid # NoUser /\ uid = e.user_id
PolicyVenuesInsert(uid) == uid # NoUser
PolicyLinksInsert(l, uid) == \E e \in events : e.id = l.event_id /\ e.user_id = uid
PolicyLinksDelete(l, uid) == \E e \in events : e.id = l.event_id /\ e.user_id = uid

\* fault injection: event_venues without its foreign keys and primary key
LinkInsertableNoKeys(l, uid) == PolicyLinksInsert(l, uid)

\* event_venues: both foreign keys, the composite primary key, the insert policy
LinkInsertable(l, uid) ==
  /\ \E e \in events : e.id = l.event_id
  /\ \E v \in venues : v.id = l.venue_id
  /\ l \notin links
  /\ PolicyLinksInsert(l, uid)

LinkKey(l) == l.event_id \o "/" \o l.venue_id

\* a storage call reports success, reports an error, or throws
StorageOutcomes ==
  {[kind |-> "ok"], [kind |-> "error"]} \cup {[kind |-> "throw", fault |-> f] : f \in Faults}

(***************************************************************************)
(* The rows the handlers write.                                            *)
(***************************************************************************)
NewEventRow(input, userId, n) ==
  [id |-> EventId(n), name |-> input.name, sport_type |-> input.sport_type,
   date_time |-> input.date_time, description |-> OrNull(input, "description"),
   user_id |-> userId]

\* fault injection: an update whose write set includes user_id
UpdatedEventRowReassigned(e, input) ==
  [e EXCEPT !.name = input.name, !.sport_type = input.sport_type,
            !.date_time = input.date_time,
            !.description = OrNull(input, "description"),
            !.user_id = CHOOSE u \in Users : u # e.user_id]

\* fault injection: an update that leaves the stored name as it was
UpdatedEventRowKeepName(e, input) ==
  [e EXCEPT !.sport_type = input.sport_type, !.date_time = input.date_time,
            !.description = OrNull(input, "description")]

UpdatedEventRow(e, input) ==
  [e EXCEPT !.name = input.name, !.sport_type = input.sport_type,
            !.date_time = input.date_time,
            !.description = OrNull(input, "description")]

\* fault injection: a venue insert that drops the address
NewVenueRowNoAddress(venue, n) ==
  [id |-> VenueId(n), name |-> venue.name, address |-> Null,
   city |-> OrNull(venue, "city"), state |-> OrNull(venue, "state")]

NewVenueRow(venue, n) ==
  [id |-> VenueId(n), name |-> venue.name, address |-> OrNull(venue, "address"),
   city |-> OrNull(venue, "city"), state |-> OrNull(venue, "state")]

\* the rows an update of the events table reaches: the handler's filter and the policy
UpdateTargets(id, uid) ==
  IF variant = "wrapped"
  THEN {e \in events : e.id = id /\ PolicyEventsUpdate(e, uid)}
  ELSE {e \in events : e.id = id /\ e.user_id = uid /\ PolicyEventsUpdate(e, uid)}

\* fault injection: a delete filtered by id alone, with no delete policy
DeleteTargetsById(id, uid) == {e \in events : e.id = id}

\* fault injection: a delete any signed-in user may perform
DeleteTargetsAnyOwner(id, uid) == {e \in events : e.id = id /\ uid # NoUser}

\* the rows a delete of the events table reaches
DeleteTargets(id, uid) ==
  {e \in events : e.id = id /\ e.user_id = uid /\ PolicyEventsDelete(e, uid)}

\* the ownership check of the createAction updateEventAction
OwnershipDenied(existingEvent, userId) == existingEvent.user_id # userId

SetCall(c, r) == calls' = [calls EXCEPT ![c] = r] /\ requests' = requests

(***************************************************************************)
(* Fault injections into the steps of createEventAction.                   *)
(***************************************************************************)
\* the venue loop runs although the event insert reported an error
InsertEventLenient(c) ==
  LET r == calls[c]
      row == NewEventRow(r.input, r.user, nextEventId)
  IN /\ r.pc = "insertEvent"
     /\ \E o \in StorageOutcomes :
          \/ /\ o.kind = "ok"
             /\ PolicyEventsInsert(row, r.user)
             /\ events' = events \cup {row}
             /\ nextEventId' = nextEventId + 1
             /\ SetCall(c, LoopFrom([r EXCEPT !.ev = row,
                                       !.effects = @ \cup {Effect("events", "insert", row.id)}], 1))
             /\ UNCHANGED <<variant, accounts, profiles, sessions, venues, links, nextVenueId>>
          \/ /\ o.kind = "error" \/ (o.kind = "ok" /\ ~PolicyEventsInsert(row, r.user))
             /\ SetCall(c, LoopFrom(Noted(r, o), 1))
             /\ UNCHANGED <<variant, accounts, profiles, sessions, events, venues, links, nextEventId, nextVenueId>>
          \/ /\ o.kind = "throw"
             /\ SetCall(c, Done(Noted(r, o), Threw(o.fault)))
             /\ UNCHANGED <<variant, accounts, profiles, sessions, events, venues, links, nextEventId, nextVenueId>>

(***************************************************************************)
(* Steps of createEventAction.                                             *)
(***************************************************************************)
InsertEvent(c) ==
  LET r == calls[c]
      row == NewEventRow(r.input, r.user, nextEventId)
  IN /\ r.pc = "insertEvent"
     /\ \E o \in StorageOutcomes :
          \/ /\ o.kind = "ok"
             /\ PolicyEventsInsert(row, r.user)
             /\ events' = events \cup {row}
             /\ nextEventId' = nextEventId + 1
             /\ SetCall(c, LoopFrom([r EXCEPT !.ev = row,
                                       !.effects = @ \cup {Effect("events", "insert", row.id)}], 1))
             /\ UNCHANGED <<variant, accounts, profiles, sessions, venues, links, nextVenueId>>
          \/ /\ o.kind = "error" \/ (o.kind = "ok" /\ ~PolicyEventsInsert(row, r.user))
             /\ SetCall(c, Done(Noted(r, o), Failed("Failed to create event")))
             /\ UNCHANGED <<variant, accounts, profiles, sessions, events, venues, links, nextEventId, nextVenueId>>
          \/ /\ o.kind = "throw"
             /\ SetCall(c, Done(Noted(r, o), Threw(o.fault)))
             /\ UNCHANGED <<variant, accounts, profiles, sessions, events, venues, links, nextEventId, nextVenueId>>

\* fault injection: a venue insert that throws is skipped like one that
\* reports an error
InsertVenueSwallowThrow(c) ==
  LET r == calls[c]
      row == NewVenueRow(r.input.venues[r.i], nextVenueId)
  IN /\ r.pc = "insertVenue"
     /\ \E o \in StorageOutcomes :
          \/ /\ o.kind = "ok"
             /\ PolicyVenuesInsert(r.user)
             /\ venues' = venues \cup {row}
             /\ nextVenueId' = nextVenueId + 1
             /\ SetCall(c, [r EXCEPT !.pc = "insertLink", !.venueId = row.id,
                              !.effects = @ \cup {Effect("venues", "insert", row.id)}])
             /\ UNCHANGED <<variant, accounts, profiles, sessions, events, links, nextEventId>>
          \/ /\ o.kind # "ok" \/ ~PolicyVenuesInsert(r.user)
             /\ SetCall(c, LoopFrom(Noted(r, o), r.i + 1))
             /\ UNCHANGED <<variant, accounts, profiles, sessions, events, venues, links, nextEventId, nextVenueId>>

\* the venue loop: insert a venue that carries no id; on an error skip the venue
InsertVenue(c) ==
  LET r == calls[c]
      row == NewVenueRow(r.input.venues[r.i], nextVenueId)
  IN /\ r.pc = "insertVenue"
     /\ \E o \in StorageOutcomes :
          \/ /\ o.kind = "ok"
             /\ PolicyVenuesInsert(r.user)
             /\ venues' = venues \cup {row}
             /\ nextVenueId' = nextVenueId + 1
             /\ SetCall(c, [r EXCEPT !.pc = "insertLink", !.venueId = row.id,
                              !.effects = @ \cup {Effect("venues", "insert", row.id)}])
             /\ UNCHANGED <<variant, accounts, profiles, sessions, events, links, nextEventId>>
          \/ /\ o.kind = "error" \/ (o.kind = "ok" /\ ~PolicyVenuesInsert(r.user))
             /\ SetCall(c, LoopFrom(Noted(r, o), r.i + 1))
             /\ UNCHANGED <<variant, accounts, profiles, sessions, events, venues, links, nextEventId, nextVenueId>>
          \/ /\ o.kind = "throw"
             /\ SetCall(c, Done(Noted(r, o), Threw(o.fault)))
             /\ UNCHANGED <<variant, accounts, profiles, sessions, events, venues, links, nextEventId, nextVenueId>>

\* the venue loop: link the venue to the event; an error is logged and dropped
InsertLink(c) ==
  LET r == calls[c]
      l == [event_id |-> r.ev.id, venue_id |-> r.venueId]
  IN /\ r.pc = "insertLink"
     /\ \E o \in StorageOutcomes :
          \/ /\ o.kind = "ok"
             /\ LinkInsertable(l, r.user)
             /\ links' = links \cup {l}
             /\ SetCall(c, LoopFrom([r EXCEPT !.effects =
                                       @ \cup {Effect("event_venues", "insert", LinkKey(l))}],
                                    r.i + 1))
             /\ UNCHANGED <<variant, accounts, profiles, sessions, events, venues, nextEventId, nextVenueId>>
          \/ /\ o.kind = "error" \/ (o.kind = "ok" /\ ~LinkInsertable(l, r.user))
             /\ SetCall(c, LoopFrom(Noted(r, o), r.i + 1))
             /\ UNCHANGED <<variant, accounts, profiles, sessions, events, venues, links, nextEventId, nextVenueId>>
          \/ /\ o.kind = "throw"
             /\ SetCall(c, Done(Noted(r, o), Threw(o.fault)))
             /\ UNCHANGED <<variant, accounts, profiles, sessions, events, venues, links, nextEventId, nextVenueId>>

(***************************************************************************)
(* Steps of updateEventAction.                                             *)
(***************************************************************************)
\* createAction variant only: fetch the row's owner and verify ownership
FetchOwner(c) ==
  LET r == calls[c]
      found == {e \in events : e.id = r.input.id}
  IN /\ r.pc = "fetchOwner"
     /\ UNCHANGED <<variant, accounts, profiles, sessions, events, venues, links, nextEventId, nextVenueId>>
     /\ \E o \in StorageOutcomes :
          \/ /\ o.kind = "ok"
             /\ found # {}
             /\ LET existingEvent == CHOOSE e \in found : TRUE
                IN IF OwnershipDenied(existingEvent, r.user)
                   THEN SetCall(c, Done(Noted(r, o), Failed("You do not have permission to edit this event")))
                   ELSE SetCall(c, [r EXCEPT !.pc = "updateEvent"])
          \/ /\ o.kind = "error" \/ (o.kind = "ok" /\ found = {})
             /\ SetCall(c, Done(Noted(r, o), Failed("Event not found")))
          \/ /\ o.kind = "throw"
             /\ SetCall(c, Done(Noted(r, o), Threw(o.fault)))

UpdateEvent(c) ==
  LET r == calls[c]
      targets == UpdateTargets(r.input.id, r.user)
  IN /\ r.pc = "updateEvent"
     /\ \E o \in StorageOutcomes :
          \/ /\ o.kind = "ok"
             /\ targets # {}
             /\ LET e == CHOOSE x \in targets : TRUE
                    row == UpdatedEventRow(e, r.input)
                IN /\ events' = (events \ {e}) \cup {row}
                   /\ SetCall(c, [r EXCEPT !.pc = "deleteLinks", !.ev = row,
                                    !.effects = @ \cup {Effect("events", "update", row.id)}])
             /\ UNCHANGED <<variant, accounts, profiles, sessions, venues, links, nextEventId, nextVenueId>>
          \/ /\ o.kind = "error" \/ (o.kind = "ok" /\ targets = {})
             /\ SetCall(c, Done(Noted(r, o), Failed("Failed to update event")))
             /\ UNCHANGED <<variant, accounts, profiles, sessions, events, venues, links, nextEventId, nextVenueId>>
          \/ /\ o.kind = "throw"
             /\ SetCall(c, Done(Noted(r, o), Threw(o.fault)))
             /\ UNCHANGED <<variant, accounts, profiles, sessions, events, venues, links, nextEventId, nextVenueId>>

\* fault injection: after the links are deleted the venue loop starts at the
\* second submitted venue
DeleteLinksSkipFirst(c) ==
  LET r == calls[c]
      removed == {l \in links : l.event_id = r.input.id /\ PolicyLinksDelete(l, r.user)}
  IN /\ r.pc = "deleteLinks"
     /\ UNCHANGED <<variant, accounts, profiles, sessions, events, venues, nextEventId, nextVenueId>>
     /\ \E o \in StorageOutcomes :
          \/ /\ o.kind = "ok"
             /\ links' = links \ removed
             /\ SetCall(c, LoopFrom([r EXCEPT !.effects = @ \cup
                                       {Effect("event_venues", "delete", LinkKey(l)) : l \in removed}],
                                    2))
          \/ /\ o.kind = "error"
             /\ links' = links
             /\ SetCall(c, LoopFrom(Noted(r, o), 1))
          \/ /\ o.kind = "throw"
             /\ links' = links
             /\ SetCall(c, Done(Noted(r, o), Threw(o.fault)))

\* delete the event's links; the call's reported error is not looked at
DeleteLinks(c) ==
  LET r == calls[c]
      removed == {l \in links : l.event_id = r.input.id /\ PolicyLinksDelete(l, r.user)}
  IN /\ r.pc = "deleteLinks"
     /\ UNCHANGED <<variant, accounts, profiles, sessions, events, venues, nextEventId, nextVenueId>>
     /\ \E o \in StorageOutcomes :
          \/ /\ o.kind = "ok"
             /\ links' = links \ removed
             /\ SetCall(c, LoopFrom([r EXCEPT !.effects = @ \cup
                                       {Effect("event_venues", "delete", LinkKey(l)) : l \in removed}],
                                    1))
          \/ /\ o.kind = "error"
             /\ links' = links
             /\ SetCall(c, LoopFrom(Noted(r, o), 1))
          \/ /\ o.kind = "throw"
             /\ links' = links
             /\ SetCall(c, Done(Noted(r, o), Threw(o.fault)))

(***************************************************************************)
(* deleteEventAction: one delete filtered by id and owner; the links go by *)
(* ON DELETE CASCADE.                                                      *)
(***************************************************************************)
\* fault injection: a delete that matches no row fails with 'Event not found'
DeleteEventStrict(c) ==
  LET r == calls[c]
      targets == DeleteTargets(r.input.id, r.user)
      cascaded == {l \in links : \E e \in targets : l.event_id = e.id}
  IN /\ r.pc = "deleteEvent"
     /\ UNCHANGED <<variant, accounts, profiles, sessions, venues, nextEventId, nextVenueId>>
     /\ \E o \in StorageOutcomes :
          \/ /\ o.kind = "ok"
             /\ targets = {}
             /\ UNCHANGED <<events, links>>
             /\ SetCall(c, Done(r, Failed("Event not found")))
          \/ /\ o.kind = "ok"
             /\ targets # {}
             /\ events' = events \ targets
             /\ links' = links \ cascaded
             /\ SetCall(c, Done([r EXCEPT !.revalidated = TRUE,
                                   !.effects = @ \cup {Effect("events", "delete", e.id) : e \in targets}
                                                 \cup {Effect("event_venues", "delete", LinkKey(l)) : l \in cascaded}],
                                Returned(r.op, NoData)))
          \/ /\ o.kind = "error"
             /\ UNCHANGED <<events, links>>
             /\ SetCall(c, Done(Noted(r, o), Failed("Failed to delete event")))
          \/ /\ o.kind = "throw"
             /\ UNCHANGED <<events, links>>
             /\ SetCall(c, Done(Noted(r, o), Threw(o.fault)))

\* fault injection: the cascade of an event's delete reaches the venues the
\* event was linked to
DeleteEventCascadeVenues(c) ==
  LET r == calls[c]
      targets == DeleteTargets(r.input.id, r.user)
      cascaded == {l \in links : \E e \in targets : l.event_id = e.id}
  IN /\ r.pc = "deleteEvent"
     /\ UNCHANGED <<variant, accounts, profiles, sessions, nextEventId, nextVenueId>>
     /\ \E o \in StorageOutcomes :
          \/ /\ o.kind = "ok"
             /\ events' = events \ targets
             /\ links' = links \ cascaded
             /\ venues' = {v \in venues : \A l \in cascaded : l.venue_id # v.id}
             /\ SetCall(c, Done([r EXCEPT !.revalidated = TRUE,
                                   !.effects = @ \cup {Effect("events", "delete", e.id) : e \in targets}
                                                 \cup {Effect("event_venues", "delete", LinkKey(l)) : l \in cascaded}],
                                Returned(r.op, NoData)))
          \/ /\ o.kind = "error"
             /\ UNCHANGED <<events, links, venues>>
             /\ SetCall(c, Done(Noted(r, o), Failed("Failed to delete event")))
          \/ /\ o.kind = "throw"
             /\ UNCHANGED <<events, links, venues>>
             /\ SetCall(c, Done(Noted(r, o), Threw(o.fault)))

DeleteEvent(c) ==
  LET r == calls[c]
      targets == DeleteTargets(r.input.id, r.user)
      cascaded == {l \in links : \E e \in targets : l.event_id = e.id}
  IN /\ r.pc = "deleteEvent"
     /\ UNCHANGED <<variant, accounts, profiles, sessions, venues, nextEventId, nextVenueId>>
     /\ \E o \in StorageOutcomes :
          \/ /\ o.kind = "ok"
             /\ events' = events \ targets
             /\ links' = links \ cascaded
             /\ SetCall(c, Done([r EXCEPT !.revalidated = TRUE,
                                   !.effects = @ \cup {Effect("events", "delete", e.id) : e \in targets}
                                                 \cup {Effect("event_venues", "delete", LinkKey(l)) : l \in cascaded}],
                                Returned(r.op, NoData)))
          \/ /\ o.kind = "error"
             /\ UNCHANGED <<events, links>>
             /\ SetCall(c, Done(Noted(r, o), Failed("Failed to delete event")))
          \/ /\ o.kind = "throw"
             /\ UNCHANGED <<events, links>>
             /\ SetCall(c, Done(Noted(r, o), Threw(o.fault)))

(***************************************************************************)
(* The requests a client can send.                                         *)
(***************************************************************************)
Ops == {"create", "update", "delete"}

Obj(o) == [type |-> "object", obj |-> o]
NotAnObject == [type |-> "undefined"]

ValidFields ==
  { [name |-> "Spring Cup", sport_type |-> "Soccer", date_time |-> "2025-06-01T10:00"],
    [name |-> "Fall Classic", sport_type |-> "Basketball", date_time |-> "2025-09-01T18:00",
     description |-> "Finals"] }

NewVenue == [name |-> "Gym", address |-> "1 Main St", city |-> "", state |-> "NY"]
ExistingVenue(n) == [id |-> VenueId(n), name |-> "Gym"]

VenueInputs == {NewVenue, ExistingVenue(1)}

VenueLists ==
  {<<v>> : v \in VenueInputs} \cup {<<v, w>> : v, w \in VenueInputs}
    \cup {<<ExistingVenue(2)>>, <<ExistingVenue(1), ExistingVenue(2)>>}

TargetIds == {EventId(1), EventId(2)}

F1 == CHOOSE f \in ValidFields : ~Has(f, "description")

\* inputs that violate the schema of create (and, with an id, of update)
InvalidFields ==
  { [F1 EXCEPT !.name = ""] @@ [venues |-> <<NewVenue>>],
    [F1 EXCEPT !.name = LongName] @@ [venues |-> <<NewVenue>>],
    [name |-> "Spring Cup", date_time |-> "2025-06-01T10:00", venues |-> <<NewVenue>>],
    [F1 EXCEPT !.date_time = ""] @@ [venues |-> <<NewVenue>>],
    F1 @@ [description |-> NotAString, venues |-> <<NewVenue>>],
    F1 @@ [venues |-> <<>>],
    F1 @@ [venues |-> <<[name |-> ""]>>],
    [sport_type |-> "Soccer", name |-> "", date_time |-> "2025-06-01T10:00"] }

Args(op) ==
  CASE op = "create" ->
         {Obj(f @@ [venues |-> vl]) : f \in ValidFields, vl \in VenueLists}
           \cup {Obj(o) : o \in InvalidFields} \cup {NotAnObject}
    [] op = "update" ->
         {Obj([id |-> id] @@ f @@ [venues |-> vl]) :
            id \in TargetIds, f \in ValidFields, vl \in VenueLists}
           \cup {Obj([id |-> EventId(1)] @@ o) : o \in InvalidFields}
           \cup {Obj([id |-> "not-a-uuid"] @@ F1 @@ [venues |-> <<NewVenue>>]), NotAnObject}
    [] op = "delete" ->
         {Obj([id |-> id]) : id \in TargetIds}
           \cup {Obj([id |-> "not-a-uuid"]), Obj(<<>>), NotAnObject}

\* venues of `vs` from index i on that carry no id: each takes a fresh venue id
RECURSIVE NewVenueCount(_, _)
NewVenueCount(vs, i) ==
  IF i > Len(vs) THEN 0
  ELSE (IF NoVenueId(vs[i]) THEN 1 ELSE 0) + NewVenueCount(vs, i + 1)

PendingEvents(r) == IF r.pc = "insertEvent" THEN 1 ELSE 0

PendingVenues(r) ==
  IF r.pc \in {"insertEvent", "fetchOwner", "updateEvent", "deleteLinks"}
  THEN NewVenueCount(r.input.venues, 1)
  ELSE IF r.pc = "insertVenue" THEN NewVenueCount(r.input.venues, r.i)
  ELSE IF r.pc = "insertLink" THEN NewVenueCount(r.input.venues, r.i + 1)
  ELSE 0

RECURSIVE PendingEventsOf(_)
PendingEventsOf(S) ==
  IF S = {} THEN 0
  ELSE LET x == CHOOSE y \in S : TRUE IN PendingEvents(calls[x]) + PendingEventsOf(S \ {x})

RECURSIVE PendingVenuesOf(_)
PendingVenuesOf(S) ==
  IF S = {} THEN 0
  ELSE LET x == CHOOSE y \in S : TRUE IN PendingVenues(calls[x]) + PendingVenuesOf(S \ {x})

\* the ids this request may still draw stay within the model's bounds
WithinBounds(r) ==
  /\ (nextEventId - 1) + PendingEventsOf(Calls) + PendingEvents(r) <= MaxEvents
  /\ (nextVenueId - 1) + PendingVenuesOf(Calls) + PendingVenues(r) <= MaxVenues

Entry(r, op, idn, arg) ==
  IF variant = "wrapped" THEN WrappedEntry(r, op, idn, arg) ELSE DirectEntry(r, op, idn, arg)

\* a client calls an action: identity resolution and validation touch no table
Request(c, op, idn, arg) ==
  LET r == Entry(IdleCall, op, idn, arg)
  IN /\ WithinBounds(r)
     /\ calls' = [calls EXCEPT ![c] = r]
     /\ UNCHANGED <<variant, accounts, profiles, sessions, events, venues, links, nextEventId, nextVenueId>>

\* any request, by any caller
Invoke(c) ==
  /\ calls[c].pc = "idle"
  /\ requests < MaxRequests
  /\ requests' = requests + 1
  /\ \E op \in Ops : \E arg \in Args(op) : \E idn \in Identities : Request(c, op, idn, arg)

\* the result reaches the caller
Return(c) ==
  /\ calls[c].pc = "done"
  /\ \A i \in 1..Len(calls[c].tasks) : calls[c].tasks[i].st \in {"done", "failed"}
  /\ SetCall(c, IdleCall)
  /\ UNCHANGED <<variant, accounts, profiles, sessions, events, venues, links, nextEventId, nextVenueId>>

Init ==
  /\ variant \in Variants
  /\ events = {}
  /\ venues = {}
  /\ links = {}
  /\ accounts = {}
  /\ profiles = {}
  /\ sessions = {}
  /\ nextEventId = 1
  /\ nextVenueId = 1
  /\ calls = [c \in Calls |-> IdleCall]
  /\ requests = 0

\* one storage call of request c completes
StorageStep(c) ==
  \/ InsertEvent(c)
  \/ InsertVenue(c)
  \/ InsertLink(c)
  \/ FetchOwner(c)
  \/ UpdateEvent(c)
  \/ DeleteLinks(c)
  \/ DeleteEvent(c)

(***************************************************************************)
(* Spec: up to MaxRequests requests one after the other, every input and   *)
(* every identity.                                                         *)
(***************************************************************************)
Next ==
  \/ Invoke("c1")
  \/ StorageStep("c1")
  \/ Return("c1")

Spec == Init /\ [][Next]_vars

(***************************************************************************)
(* ConcurrentSpec: two requests of signed-in users in flight at once,      *)
(* interleaved at their storage calls.  A finished request's result is     *)
(* returned before anything else happens.                                  *)
(***************************************************************************)
ConcurrentVenueLists == {<<NewVenue>>, <<ExistingVenue(1)>>}

ConcurrentArgs(op) ==
  CASE op = "create" ->
         {Obj(f @@ [venues |-> vl]) : f \in ValidFields, vl \in ConcurrentVenueLists}
    [] op = "update" ->
         {Obj([id |-> id] @@ f @@ [venues |-> vl]) :
            id \in TargetIds, f \in ValidFields, vl \in ConcurrentVenueLists}
    [] op = "delete" -> {Obj([id |-> id]) : id \in TargetIds}

InvokeConcurrent(c) ==
  /\ calls[c].pc = "idle"
  /\ c = "c1" \/ calls["c1"].pc # "idle"
  /\ requests < MaxRequests
  /\ requests' = requests + 1
  /\ \E op \in Ops : \E arg \in ConcurrentArgs(op) : \E u \in Users :
       Request(c, op, [kind |-> "user", user |-> u], arg)

NoneDone == \A c \in Calls : calls[c].pc # "done"

ConcurrentNext ==
  \/ \E c \in Calls : Return(c)
  \/ NoneDone /\ \E c \in Calls : InvokeConcurrent(c)
  \/ NoneDone /\ \E c \in Calls : StorageStep(c)

ConcurrentSpec == Init /\ [][ConcurrentNext]_vars

(***************************************************************************)
(* Text.  The read actions trim, fold case and pattern-match their filter  *)
(* terms; Chars spells the strings the model uses, one character each.     *)
(***************************************************************************)
Chars(s) ==
  CASE s = "Spring Cup" -> <<"S", "p", "r", "i", "n", "g", " ", "C", "u", "p">>
    [] s = "Fall Classic" -> <<"F", "a", "l", "l", " ", "C", "l", "a", "s", "s", "i", "c">>
    [] s = "Soccer" -> <<"S", "o", "c", "c", "e", "r">>
    [] s = "Basketball" -> <<"B", "a", "s", "k", "e", "t", "b", "a", "l", "l">>
    [] s = "cup" -> <<"c", "u", "p">>
    [] s = " CUP " -> <<" ", "C", "U", "P", " ">>
    [] s = "c_p" -> <<"c", "_", "p">>
    [] s = "zzz" -> <<"z", "z", "z">>
    [] s = "   " -> <<" ", " ", " ">>
    [] s = "" -> <<>>
    [] s = "basketball" -> <<"b", "a", "s", "k", "e", "t", "b", "a", "l", "l">>
    [] s = " Soccer " -> <<" ", "S", "o", "c", "c", "e", "r", " ">>
    [] s = "Ann" -> <<"A", "n", "n">>
    [] s = "Lee" -> <<"L", "e", "e">>
    [] s = "Ann Lee" -> <<"A", "n", "n", " ", "L", "e", "e">>
    [] s = "Lee Roy" -> <<"L", "e", "e", " ", "R", "o", "y">>
    [] s = " Ann  Lee Roy " -> <<" ", "A", "n", "n", " ", " ", "L", "e", "e", " ", "R", "o", "y", " ">>
    [] s = "Cher" -> <<"C", "h", "e", "r">>

\* lower(): the upper-case letters and what they fold to
LowerOf ==
  [A |-> "a", B |-> "b", C |-> "c", D |-> "d", E |-> "e", F |-> "f", G |-> "g"]
    @@ [H |-> "h", I |-> "i", J |-> "j", K |-> "k", L |-> "l", M |-> "m", N |-> "n"]
    @@ [O |-> "o", P |-> "p", Q |-> "q", R |-> "r", S |-> "s", T |-> "t", U |-> "u"]
    @@ [V |-> "v", W |-> "w", X |-> "x", Y |-> "y", Z |-> "z"]

Lower(ch) == IF ch \in DOMAIN LowerOf THEN LowerOf[ch] ELSE ch

LowerSeq(cs) == [j \in 1..Len(cs) |-> Lower(cs[j])]

RECURSIVE TrimStart(_)
TrimStart(cs) == IF cs # <<>> /\ Head(cs) = " " THEN TrimStart(Tail(cs)) ELSE cs

RECURSIVE TrimEnd(_)
TrimEnd(cs) ==
  IF cs # <<>> /\ cs[Len(cs)] = " " THEN TrimEnd(SubSeq(cs, 1, Len(cs) - 1)) ELSE cs

\* String.prototype.trim
Trim(cs) == TrimEnd(TrimStart(cs))

\* SQL LIKE: % matches any run of characters, _ any one character
RECURSIVE Like(_, _)
Like(text, pattern) ==
  IF pattern = <<>> THEN text = <<>>
  ELSE IF Head(pattern) = "%"
       THEN Like(text, Tail(pattern)) \/ (text # <<>> /\ Like(Tail(text), pattern))
       ELSE /\ text # <<>>
            /\ Head(pattern) = "_" \/ Head(pattern) = Head(text)
            /\ Like(Tail(text), Tail(pattern))

\* SQL ILIKE: LIKE without regard to case
ILike(text, pattern) == Like(LowerSeq(text), LowerSeq(pattern))

\* the order of TIMESTAMPTZ values among the timestamps the model uses
TimeOf(s) ==
  CASE s = "2025-06-01T10:00" -> 1
    [] s = "2025-09-01T18:00" -> 2

\* the sequences that list every element of S once
SeqsOf(S) ==
  {s \in [1..Cardinality(S) -> S] : \A i, j \in 1..Cardinality(S) : s[i] = s[j] => i = j}

\* a JS array as a value
JsArray(s) == [array |-> s]

(***************************************************************************)
(* The read actions: getEventsAction and getEventByIdAction.  Neither      *)
(* resolves an identity; every select policy of the schema admits every    *)
(* row.                                                                    *)
(***************************************************************************)
ReadOps == {"getEvents", "getEventById"}

\* `input.search && input.search.trim()`: the trimmed term, empty when absent
Term(input, k) == IF Has(input, k) /\ input[k] # Zero THEN Trim(Chars(input[k])) ELSE <<>>

\* query.ilike('name', `%${input.search.trim()}%`), when the term is not empty
MatchesSearch(e, input) ==
  Term(input, "search") = <<>>
    \/ ILike(Chars(e.name), <<"%">> \o Term(input, "search") \o <<"%">>)

\* query.eq('sport_type', input.sportType.trim()), when the term is not empty
MatchesSportType(e, input) ==
  Term(input, "sportType") = <<>> \/ Chars(e.sport_type) = Term(input, "sportType")

SelectedEvents(input) ==
  {e \in events : MatchesSearch(e, input) /\ MatchesSportType(e, input)}

\* .order('date_time', {ascending: true}): rows of equal date_time in any order
OrderedByDateTime(S) ==
  {s \in SeqsOf(S) :
     \A i, j \in 1..Len(s) : i < j => TimeOf(s[i].date_time) <= TimeOf(s[j].date_time)}

\* the handler returned `value`: createAction without successMessage, or
\* `return {success: true, data: value}`
ReturnedRead(op, value) ==
  IF variant = "wrapped" THEN CreateActionSuccess(Options(op), value) ELSE Ok(value)

\* Promise.all over the fetched rows: one task per event, all started at
\* once with their link queries; a task then waits for its links, then for
\* its venues
StartTasks(rows) == [i \in 1..Len(rows) |-> [st |-> "links", venueIds |-> {}, value |-> NoRow]]

Outstanding(r) == {i \in 1..Len(r.tasks) : r.tasks[i].st \in {"links", "venues"}}

\* a task has its value; what a task yields after the action has its result
\* is dropped
Fulfilled(r, value) ==
  [st |-> "done", venueIds |-> {}, value |-> IF r.pc = "done" THEN NoRow ELSE value]

\* a later outcome does not undo a throw
Worst(r, o) == IF r.fault = "throw" THEN r ELSE Noted(r, o)

\* Promise.all resolves, in the order of the rows, once every task has its
\* value; a request that has its result keeps it
EventLoop(r) ==
  IF r.pc = "done" \/ \E i \in 1..Len(r.tasks) : r.tasks[i].st # "done"
  THEN r
  ELSE Done(r, ReturnedRead(r.op, IF r.op = "getEvents"
                                  THEN JsArray([i \in 1..Len(r.tasks) |-> r.tasks[i].value])
                                  ELSE r.tasks[1].value))

\* a task rejects: the first rejection is the action's result, the other
\* tasks go on
Rejected(r, i, fault) ==
  LET q == [r EXCEPT !.tasks[i] = [st |-> "failed", venueIds |-> {}, value |-> NoRow]]
  IN IF r.pc = "done" THEN q ELSE Done(q, Threw(fault))

\* {...event, venues}
WithVenues(event, vs) == event @@ [venues |-> JsArray(vs)]

\* createAction lines 111-132: no identity, the schema if there is one, the handler
WrappedReadEntry(r, op, idn, arg) ==
  LET issues == SchemaIssues(op, arg)
      r1 == [r EXCEPT !.op = op, !.idn = idn, !.arg = arg]
  IN IF Options(op).schema /\ issues # <<>>
     THEN Done([r1 EXCEPT !.parsed = TRUE],
               ErrFields(ValidationFailed, FlattenFieldErrors(issues)))
     ELSE IF op = "getEvents"
          THEN [r1 EXCEPT !.parsed = TRUE, !.invoked = TRUE, !.pc = "queryEvents",
                          !.input = [k \in DOMAIN arg.obj \cap {"search", "sportType"} |-> arg.obj[k]]]
          ELSE [r1 EXCEPT !.invoked = TRUE, !.pc = "fetchEvent", !.input = [id |-> arg.value]]

\* the plain functions: no validation; `input = {}` when the argument is
\* undefined; `input.search && input.search.trim()`: a falsy value is no
\* filter, .trim() of a truthy value that is not a string throws
DirectReadEntry(r, op, idn, arg) ==
  LET r1 == [r EXCEPT !.op = op, !.idn = idn, !.arg = arg, !.invoked = TRUE]
      input == IF arg.type = "object" THEN arg.obj ELSE <<>>
  IN IF op = "getEvents"
     THEN IF \E k \in {"search", "sportType"} : Has(input, k) /\ input[k] = NotAString
          THEN Done([r1 EXCEPT !.input = input], Err(UnexpectedError))
          ELSE [r1 EXCEPT !.pc = "queryEvents", !.input = input]
     ELSE [r1 EXCEPT !.pc = "fetchEvent", !.input = [id |-> arg.value]]

\* fault injection: read actions that require a signed-in user
ReadEntryGated(r, op, idn, arg) ==
  IF getUser(idn) = NoUser
  THEN Done([r EXCEPT !.op = op, !.idn = idn, !.arg = arg],
            Err(IF variant = "wrapped" THEN AuthRequiredWrapped ELSE AuthRequiredDirect))
  ELSE IF variant = "wrapped" THEN WrappedReadEntry(r, op, idn, arg)
       ELSE DirectReadEntry(r, op, idn, arg)

ReadEntry(r, op, idn, arg) ==
  IF variant = "wrapped" THEN WrappedReadEntry(r, op, idn, arg)
  ELSE DirectReadEntry(r, op, idn, arg)

\* getEventsAction: the events query
QueryEvents(c) ==
  LET r == calls[c]
      q == [r EXCEPT !.queries = @ \cup {"events"}]
  IN /\ r.pc = "queryEvents"
     /\ UNCHANGED <<variant, accounts, profiles, sessions, events, venues, links, nextEventId, nextVenueId>>
     /\ \E o \in StorageOutcomes :
          \/ /\ o.kind = "ok"
             /\ \E rows \in OrderedByDateTime(SelectedEvents(r.input)) :
                  SetCall(c, EventLoop([q EXCEPT !.pc = "eventLoop", !.rows = rows,
                                                 !.tasks = StartTasks(rows),
                                                 !.queries = @ \cup (IF rows = <<>> THEN {}
                                                                     ELSE {"event_venues"})]))
          \/ /\ o.kind = "error"
             /\ SetCall(c, Done(Noted(q, o), Failed("Failed to fetch events")))
          \/ /\ o.kind = "throw"
             /\ SetCall(c, Done(Noted(q, o), Threw(o.fault)))

\* getEventByIdAction: .eq('id', id).single()
FetchEvent(c) ==
  LET r == calls[c]
      q == [r EXCEPT !.queries = @ \cup {"events"}]
      found == {e \in events : e.id = r.input.id}
  IN /\ r.pc = "fetchEvent"
     /\ UNCHANGED <<variant, accounts, profiles, sessions, events, venues, links, nextEventId, nextVenueId>>
     /\ \E o \in StorageOutcomes :
          \/ /\ o.kind = "ok"
             /\ found # {}
             /\ LET rows == <<CHOOSE e \in found : TRUE>>
                IN SetCall(c, EventLoop([q EXCEPT !.pc = "eventLoop", !.rows = rows,
                                                  !.tasks = StartTasks(rows),
                                                  !.queries = @ \cup {"event_venues"}]))
          \/ /\ o.kind = "error" \/ (o.kind = "ok" /\ found = {})
             /\ SetCall(c, Done(Noted(q, o), Failed("Event not found")))
          \/ /\ o.kind = "throw"
             /\ SetCall(c, Done(Noted(q, o), Threw(o.fault)))

\* fault injection: an error reported by the link query fails the list
EventLinksStrict(c) ==
  LET r == calls[c]
  IN /\ r.pc \in {"eventLoop", "done"}
     /\ UNCHANGED <<variant, accounts, profiles, sessions, events, venues, links, nextEventId, nextVenueId>>
     /\ \E i \in 1..Len(r.tasks) : \E o \in StorageOutcomes :
          LET event == r.rows[i]
              venueIds == {l.venue_id : l \in {k \in links : k.event_id = event.id}}
          IN /\ r.tasks[i].st = "links"
             /\ \/ /\ o.kind = "ok"
                   /\ IF venueIds = {}
                      THEN SetCall(c, EventLoop([r EXCEPT !.tasks[i] =
                                                   Fulfilled(r, WithVenues(event, <<>>))]))
                      ELSE SetCall(c, [r EXCEPT !.tasks[i] =
                             [st |-> "venues", venueIds |-> venueIds, value |-> NoRow],
                             !.queries = @ \cup {"venues"}])
                \/ /\ o.kind = "error"
                   /\ SetCall(c, Rejected(Worst(r, o), i, NewError("Failed to fetch events")))
                \/ /\ o.kind = "throw"
                   /\ SetCall(c, Rejected(Worst(r, o), i, o.fault))

\* the links of an event, whichever task's answer arrives: a reported error
\* leaves `eventVenues` null, and the event gets no venues; with links the
\* task asks for the venues
EventLinks(c) ==
  LET r == calls[c]
  IN /\ r.pc \in {"eventLoop", "done"}
     /\ UNCHANGED <<variant, accounts, profiles, sessions, events, venues, links, nextEventId, nextVenueId>>
     /\ \E i \in 1..Len(r.tasks) : \E o \in StorageOutcomes :
          LET event == r.rows[i]
              venueIds == IF o.kind = "ok"
                          THEN {l.venue_id : l \in {k \in links : k.event_id = event.id}}
                          ELSE {}
          IN /\ r.tasks[i].st = "links"
             /\ \/ /\ o.kind \in {"ok", "error"}
                   /\ IF venueIds = {}
                      THEN SetCall(c, EventLoop([Worst(r, o) EXCEPT !.tasks[i] =
                                                   Fulfilled(r, WithVenues(event, <<>>))]))
                      ELSE SetCall(c, [r EXCEPT !.tasks[i] =
                             [st |-> "venues", venueIds |-> venueIds, value |-> NoRow],
                             !.queries = @ \cup {"venues"}])
                \/ /\ o.kind = "throw"
                   /\ SetCall(c, Rejected(Worst(r, o), i, o.fault))

\* fault injection: a venues query without its id filter
AllVenues(ids) == venues

\* .from('venues').select('*').in('id', venueIds)
VenuesIn(ids) == {v \in venues : v.id \in ids}

\* the venues of an event: .in('id', venueIds), rows in any order; a reported
\* error leaves `venues` null, and the event gets no venues
EventVenues(c) ==
  LET r == calls[c]
  IN /\ r.pc \in {"eventLoop", "done"}
     /\ UNCHANGED <<variant, accounts, profiles, sessions, events, venues, links, nextEventId, nextVenueId>>
     /\ \E i \in 1..Len(r.tasks) : \E o \in StorageOutcomes :
          LET event == r.rows[i]
          IN /\ r.tasks[i].st = "venues"
             /\ \/ /\ o.kind = "ok"
                   /\ \E vs \in SeqsOf(VenuesIn(r.tasks[i].venueIds)) :
                        SetCall(c, EventLoop([r EXCEPT !.tasks[i] =
                                                Fulfilled(r, WithVenues(event, vs))]))
                \/ /\ o.kind = "error"
                   /\ SetCall(c, EventLoop([Worst(r, o) EXCEPT !.tasks[i] =
                                              Fulfilled(r, WithVenues(event, <<>>))]))
                \/ /\ o.kind = "throw"
                   /\ SetCall(c, Rejected(Worst(r, o), i, o.fault))

\* one storage call of read request c completes
ReadStep(c) ==
  \/ QueryEvents(c)
  \/ FetchEvent(c)
  \/ EventLinks(c)
  \/ EventVenues(c)

(***************************************************************************)
(* SequenceSpec: signed-in users send valid requests one after the other,  *)
(* one more than MaxRequests, and every storage call succeeds.  A client   *)
(* may send the request it has just completed a second time; the second    *)
(* request runs in slot c2, after the first is done.                       *)
(***************************************************************************)
QueryVenueLists ==
  { <<NewVenue>>, <<ExistingVenue(1)>>, <<NewVenue, NewVenue>>,
    <<NewVenue, ExistingVenue(1)>>, <<ExistingVenue(1), ExistingVenue(1)>> }

QueryArgs(op) ==
  CASE op = "create" ->
         {Obj(f @@ [venues |-> vl]) : f \in ValidFields, vl \in QueryVenueLists}
    [] op = "update" ->
         {Obj([id |-> id] @@ f @@ [venues |-> vl]) :
            id \in TargetIds, f \in ValidFields, vl \in QueryVenueLists}
    [] op = "delete" -> {Obj([id |-> id]) : id \in TargetIds}

WithinQueryBounds(r) ==
  /\ (nextEventId - 1) + PendingEvents(r) <= MaxEvents
  /\ (nextVenueId - 1) + PendingVenues(r) <= MaxVenues + 1

InvokeWrite(c) ==
  /\ calls[c].pc = "idle"
  /\ calls["c2"].pc = "idle"
  /\ requests < MaxRequests + 1
  /\ requests' = requests + 1
  /\ \E op \in Ops : \E arg \in QueryArgs(op) : \E u \in Users :
       LET r == Entry(IdleCall, op, [kind |-> "user", user |-> u], arg)
       IN /\ WithinQueryBounds(r)
          /\ calls' = [calls EXCEPT ![c] = r]
  /\ UNCHANGED <<variant, accounts, profiles, sessions, events, venues, links, nextEventId, nextVenueId>>

\* the request that slot c1 completed is sent again
InvokeAgain(c) ==
  /\ calls[c].pc = "idle"
  /\ calls["c1"].pc = "done"
  /\ requests < MaxRequests + 1
  /\ requests' = requests + 1
  /\ LET r == Entry(IdleCall, calls["c1"].op, calls["c1"].idn, calls["c1"].arg)
     IN /\ WithinQueryBounds(r)
        /\ calls' = [calls EXCEPT ![c] = r]
  /\ UNCHANGED <<variant, accounts, profiles, sessions, events, venues, links, nextEventId, nextVenueId>>

\* a storage call of a write completes, and reports no error
WriteStep(c) == StorageStep(c) /\ calls'[c].fault = "none"

SequenceNext ==
  \/ InvokeWrite("c1")
  \/ InvokeAgain("c2")
  \/ \E c \in Calls : WriteStep(c)
  \/ \E c \in Calls : Return(c)

SequenceSpec == Init /\ [][SequenceNext]_vars

(***************************************************************************)
(* QuerySpec: a signed-in user creates events, every storage call of a     *)
(* create succeeding; between the creates a client reads, with any outcome *)
(* of the read's storage calls.  No create runs while a read is in flight, *)
(* and the reads follow a create whose answer the client still holds.      *)
(***************************************************************************)
\* a venue submitted by id, under another name than the stored one
RenamedVenue(n) == [id |-> VenueId(n), name |-> "Arena"]

CreateVenueLists ==
  { <<NewVenue>>, <<ExistingVenue(1)>>, <<NewVenue, NewVenue>>,
    <<NewVenue, RenamedVenue(1)>>, <<ExistingVenue(1), ExistingVenue(1)>> }

CreateArgs == {Obj(f @@ [venues |-> vl]) : f \in ValidFields, vl \in CreateVenueLists}

SearchTerms == {"cup", " CUP ", "c_p", "zzz", "   "}
SportTypeTerms == {"Basketball", "basketball", " Soccer "}

Filters ==
  {<<>>} \cup {[search |-> s] : s \in SearchTerms \cup NonStrings}
    \cup {[sportType |-> t] : t \in SportTypeTerms}
    \cup {[search |-> "cup", sportType |-> t] : t \in {"Basketball", " Soccer "}}

IdArg(id) == [type |-> "string", value |-> id]

ReadArgs(op) ==
  CASE op = "getEvents" -> {Obj(f) : f \in Filters} \cup {NotAnObject}
    [] op = "getEventById" -> {IdArg(id) : id \in TargetIds \cup {"not-a-uuid"}}

\* the list is read without a session, one event with or without one
ReadIdentities(op) ==
  {[kind |-> "none", user |-> NoUser]}
    \cup (IF op = "getEventById" THEN {[kind |-> "user", user |-> "u1"]} ELSE {})

InvokeCreate(c) ==
  /\ calls[c].pc = "idle"
  /\ calls["c2"].pc = "idle"
  /\ \E arg \in CreateArgs :
       LET r == Entry(IdleCall, "create", [kind |-> "user", user |-> "u1"], arg)
       IN /\ WithinBounds(r)
          /\ calls' = [calls EXCEPT ![c] = r]
  /\ UNCHANGED <<variant, accounts, profiles, sessions, events, venues, links, nextEventId, nextVenueId, requests>>

\* a storage call of a create completes, and reports no error
CreateStep(c) ==
  /\ InsertEvent(c) \/ InsertVenue(c) \/ InsertLink(c)
  /\ calls'[c].fault = "none"

InvokeRead(c) ==
  /\ calls[c].pc = "idle"
  /\ calls["c1"].pc = "done" \/ (calls["c1"].pc = "idle" /\ events = {})
  /\ \E op \in ReadOps : \E arg \in ReadArgs(op) : \E idn \in ReadIdentities(op) :
       calls' = [calls EXCEPT ![c] = ReadEntry(IdleCall, op, idn, arg)]
  /\ UNCHANGED <<variant, accounts, profiles, sessions, events, venues, links, nextEventId, nextVenueId, requests>>

QueryNext ==
  \/ InvokeCreate("c1")
  \/ CreateStep("c1")
  \/ calls["c2"].pc = "idle" /\ Return("c1")
  \/ InvokeRead("c2")
  \/ ReadStep("c2")
  \/ Return("c2")

QuerySpec == Init /\ [][QueryNext]_vars

(***************************************************************************)
(* WrapperSpec: createAction's success result, for the options an action   *)
(* can be built with and the values its handler can return.  The request   *)
(* starts where the handler has returned; `input` holds the options and    *)
(* `ev` the returned value.                                                *)
(***************************************************************************)
OptionSets ==
  {[requireAuth |-> a] : a \in BOOLEAN}
    \cup {[requireAuth |-> a, successMessage |-> m] : a \in BOOLEAN, m \in {"", "Saved"}}

SomeRow == [id |-> EventId(1), name |-> "Spring Cup"]

HandlerValues ==
  {NoData, JsNull, JsString(""), JsString("done"), SomeRow, JsArray(<<>>), JsArray(<<SomeRow>>),
   [data |-> SomeRow], [message |-> "Custom"]}
    \cup {[data |-> d, message |-> m] :
            d \in {SomeRow, NoData}, m \in {"Custom", "", Undefined, Null}}

WrapperInit ==
  /\ variant = "wrapped"
  /\ events = {}
  /\ venues = {}
  /\ links = {}
  /\ accounts = {}
  /\ profiles = {}
  /\ sessions = {}
  /\ nextEventId = 1
  /\ nextVenueId = 1
  /\ requests = 0
  /\ \E options \in OptionSets : \E value \in HandlerValues :
       calls = [c \in Calls |->
                  IF c = "c1"
                  THEN [IdleCall EXCEPT !.pc = "returned", !.op = "handler", !.invoked = TRUE,
                                        !.input = options, !.ev = value]
                  ELSE IdleCall]

\* createAction lines 88-110 and 132-153: the handler has returned
BuildResult(c) ==
  /\ calls[c].pc = "returned"
  /\ SetCall(c, Done(calls[c], CreateActionSuccess(calls[c].input, calls[c].ev)))
  /\ UNCHANGED <<variant, accounts, profiles, sessions, events, venues, links, nextEventId, nextVenueId>>

WrapperNext ==
  \/ BuildResult("c1")
  \/ Return("c1")

WrapperSpec == WrapperInit /\ [][WrapperNext]_vars

(***************************************************************************)
(* Properties.  Helper predicates over requests and results.               *)
(***************************************************************************)
Running(r) == r.pc \notin {"idle", "done"}

\* the two shapes of ActionResponse
TaggedResult(res) ==
  /\ Has(res, "success")
  /\ \/ /\ res.success = TRUE
        /\ DOMAIN res \in {{"success", "data"}, {"success", "data", "message"}}
     \/ /\ res.success = FALSE
        /\ DOMAIN res \in {{"success", "error"}, {"success", "error", "fieldErrors"}}

\* an upper bound on the storage calls a request still has to make
StepsLeft(r) ==
  LET n == IF Has(r.input, "venues") THEN Len(r.input.venues) ELSE 0
  IN CASE r.pc = "fetchOwner" -> 3 + 2 * n
       [] r.pc = "updateEvent" -> 2 + 2 * n
       [] r.pc = "insertEvent" -> 1 + 2 * n
       [] r.pc = "deleteLinks" -> 1 + 2 * n
       [] r.pc = "insertVenue" -> 2 * (n - r.i) + 2
       [] r.pc = "insertLink" -> 2 * (n - r.i) + 1
       [] r.pc = "deleteEvent" -> 1
       [] OTHER -> 0

BeginsAuthRequired(msg) ==
  \E rest \in {"", ". Please log in."} : msg = "Authentication required" \o rest

LinksOf(L, id) == {l \in L : l.event_id = id}

\* the schema rules, field by field, read off the schema declarations
BadRequiredString(o, k) == ~Has(o, k) \/ o[k] \in NonStrings \/ o[k] = ""

BadOptionalString(o, k) == Has(o, k) /\ o[k] \in NonStrings

BadVenue(v) ==
  \/ BadRequiredString(v, "name")
  \/ \E k \in {"id", "address", "city", "state"} : BadOptionalString(v, k)

BadField(o, k) ==
  CASE k = "id" -> ~Has(o, k) \/ ~IsUuid(o[k])
    [] k = "name" -> BadRequiredString(o, k) \/ Len(o[k]) > NameMaxLen
    [] k = "sport_type" -> BadRequiredString(o, k)
    [] k = "date_time" -> BadRequiredString(o, k)
    [] k = "description" -> BadOptionalString(o, k)
    [] k = "venues" -> \/ ~Has(o, k)
                       \/ o[k] = <<>>
                       \/ \E i \in 1..Len(o[k]) : BadVenue(o[k][i])

SchemaFields(op) ==
  CASE op = "create" -> {"name", "sport_type", "date_time", "description", "venues"}
    [] op = "update" -> {"id", "name", "sport_type", "date_time", "description", "venues"}
    [] op = "delete" -> {"id"}

\* the top-level fields of the input that violate the schema of `op`
ViolatedFields(op, arg) ==
  IF arg.type # "object" THEN {}
  ELSE {k \in SchemaFields(op) : BadField(arg.obj, k)}

SchemaViolated(op, arg) == arg.type # "object" \/ ViolatedFields(op, arg) # {}

(***************************************************************************)
(* C1: every call of an action ends, after a bounded number of storage     *)
(* calls, in exactly one tagged result, {success: true, data, message?} or *)
(* {success: false, error, fieldErrors?}, whatever the input, the identity *)
(* and the outcome (return, reported error, throw) of each storage call:   *)
(* a running request can always take its next step, each step lowers the   *)
(* number of steps left, and a finished request holds a tagged result.     *)
(***************************************************************************)
C1_Step ==
  \A c \in Calls :
    /\ calls'[c].pc = "done" => TaggedResult(calls'[c].result)
    /\ (Running(calls[c]) /\ calls'[c] # calls[c]) =>
         /\ StepsLeft(calls'[c]) < StepsLeft(calls[c])
         /\ Running(calls'[c]) \/ calls'[c].pc = "done"
    /\ Running(calls'[c]) => StepsLeft(calls'[c]) > 0

C1_TotalTaggedResult ==
  /\ [](\A c \in Calls : Running(calls[c]) => ENABLED StorageStep(c))
  /\ [][C1_Step]_vars

\* a storage call of a createAction action threw a value that is not an Error
C1_Witness ==
  /\ variant = "wrapped"
  /\ calls["c1"].pc = "done"
  /\ calls["c1"].fault = "throw"
  /\ calls["c1"].result = Err("An unexpected error occurred. Please try again.")

(***************************************************************************)
(* C2: a call of a createAction action (requireAuth not false) for which   *)
(* no identity is resolved ends at once in an error result whose text      *)
(* begins with 'Authentication required'; the handler is not invoked, no   *)
(* row of any table changes and no cache invalidation is issued.  The      *)
(* plain functions agree whenever they reach their identity check; in      *)
(* neither implementation does an unauthenticated call touch storage.      *)
(***************************************************************************)
C2_Step ==
  \A c \in Calls :
    (calls[c].pc = "idle" /\ calls'[c].pc # "idle" /\ getUser(calls'[c].idn) = NoUser) =>
      LET r == calls'[c]
      IN /\ r.pc = "done"
         /\ r.result.success = FALSE
         /\ ~r.invoked
         /\ r.effects = {}
         /\ ~r.revalidated
         /\ store' = store
         /\ (variant = "wrapped"
               \/ (~SchemaViolated(r.op, r.arg) /\ r.idn.kind # "throw"))
              => BeginsAuthRequired(r.result.error) /\ ~Has(r.result, "fieldErrors")

C2_AuthGate == [][C2_Step]_vars

\* the identity service reported an error for a schema-valid create request
C2_Witness ==
  /\ variant = "wrapped"
  /\ calls["c1"].pc = "done"
  /\ calls["c1"].op = "create"
  /\ calls["c1"].idn.kind = "error"
  /\ ~SchemaViolated("create", calls["c1"].arg)
  /\ calls["c1"].result = Err(AuthRequiredWrapped)
  /\ events = {}

(***************************************************************************)
(* C3 (as stated): every updateEventAction call whose caller is not the    *)
(* stored owner of the targeted event, and whose storage calls all         *)
(* succeed, returns the error 'You do not have permission to edit this     *)
(* event' and has changed no row.                                          *)
(***************************************************************************)
C3_NonOwnerUpdateDenied ==
  \A c \in Calls :
    LET r == calls[c]
    IN (/\ r.pc = "done"
        /\ r.op = "update"
        /\ r.invoked
        /\ r.fault = "none"
        /\ \E e \in events : e.id = r.input.id /\ e.user_id # r.user)
       => /\ r.result = Err("You do not have permission to edit this event")
          /\ r.effects = {}

(***************************************************************************)
(* C4: under every interleaving of create, update and delete requests, a   *)
(* step that changes or removes an event row, or changes the set of link   *)
(* rows of an event, is a step of a request made by the event's owner.     *)
(***************************************************************************)
C4_Step ==
  \A e \in events :
    (e \notin events' \/ LinksOf(links', e.id) # LinksOf(links, e.id)) =>
      \E c \in Calls :
        /\ Running(calls[c])
        /\ calls'[c] # calls[c]
        /\ calls[c].user = e.user_id

C4_OnlyOwnerChanges == [][C4_Step]_vars

\* a request to delete an event that belongs to someone else has run, and the
\* event and its links are still there
C4_Witness ==
  \E c \in Calls : \E e \in events :
    /\ calls[c].pc = "done"
    /\ calls[c].op = "delete"
    /\ calls[c].invoked
    /\ calls[c].fault = "none"
    /\ e.id = calls[c].input.id
    /\ e.user_id # calls[c].user
    /\ LinksOf(links, e.id) # {}

(***************************************************************************)
(* C5: an event row's user_id is the identity resolved for the create      *)
(* request that inserted it, and no step of any request changes the        *)
(* user_id of a row that exists.                                           *)
(***************************************************************************)
C5_Step ==
  /\ \A e \in events : \A f \in events' : f.id = e.id => f.user_id = e.user_id
  /\ \A f \in events' :
       (\A e \in events : e.id # f.id) =>
         \E c \in Calls :
           /\ calls[c].op = "create"
           /\ calls[c].pc = "insertEvent"
           /\ calls'[c].ev = f
           /\ calls[c].idn.kind = "user"
           /\ f.user_id = calls[c].idn.user

C5_OwnerImmutable == [][C5_Step]_vars

\* the owner has updated the event: its fields changed, its owner did not
C5_Witness ==
  \E c \in Calls :
    /\ calls[c].pc = "done"
    /\ calls[c].op = "update"
    /\ calls[c].result.success = TRUE
    /\ calls[c].ev \in events
    /\ calls[c].ev.name = "Fall Classic"
    /\ calls[c].ev.user_id = calls[c].idn.user
    /\ nextEventId = 2

(***************************************************************************)
(* C6 (as stated): a signed-in caller's input that violates the action's   *)
(* schema yields the error 'Validation failed' with a fieldErrors entry    *)
(* for exactly the violated top-level fields, and the handler and every    *)
(* storage call are skipped.                                               *)
(***************************************************************************)
C6_ValidationFailedWithFields ==
  \A c \in Calls :
    LET r == calls[c]
    IN (r.pc = "done" /\ r.idn.kind = "user" /\ SchemaViolated(r.op, r.arg)) =>
         /\ r.result.success = FALSE
         /\ r.result.error = "Validation failed"
         /\ Has(r.result, "fieldErrors")
         /\ DOMAIN r.result.fieldErrors = ViolatedFields(r.op, r.arg)
         /\ ~r.invoked
         /\ r.effects = {}

(***************************************************************************)
(* C7: in createAction the identity is resolved before the schema is       *)
(* parsed, and the schema is parsed before the handler is called: a caller *)
(* with no identity who submits a schema-violating input gets the          *)
(* authentication error with no fieldErrors and the schema is not parsed;  *)
(* a signed-in caller's schema-violating input is parsed and the handler   *)
(* is not called; the handler is called only after both.                   *)
(***************************************************************************)
C7_AuthThenSchemaThenHandler ==
  variant = "wrapped" =>
    \A c \in Calls :
      LET r == calls[c]
      IN /\ (r.pc = "done" /\ getUser(r.idn) = NoUser) =>
              /\ r.result = Err(AuthRequiredWrapped)
              /\ ~r.parsed
              /\ ~r.invoked
         /\ (r.pc = "done" /\ getUser(r.idn) # NoUser /\ SchemaViolated(r.op, r.arg)) =>
              /\ r.parsed
              /\ ~r.invoked
              /\ Has(r.result, "fieldErrors")
         /\ r.parsed => getUser(r.idn) # NoUser
         /\ r.invoked => r.parsed /\ ~SchemaViolated(r.op, r.arg)

\* no identity and a schema-violating input
C7_Witness ==
  /\ variant = "wrapped"
  /\ calls["c1"].pc = "done"
  /\ calls["c1"].idn.kind = "none"
  /\ calls["c1"].op = "update"
  /\ ViolatedFields("update", calls["c1"].arg) = {"name"}
  /\ calls["c1"].result = Err(AuthRequiredWrapped)

(***************************************************************************)
(* C8 (as stated): the result of a create, update or delete request whose  *)
(* input violates the schema is the result the same input gets under every *)
(* other outcome of identity resolution.                                   *)
(***************************************************************************)
C8_MalformedResponseIgnoresAuth ==
  \A c \in Calls :
    LET r == calls[c]
    IN (r.pc = "done" /\ SchemaViolated(r.op, r.arg)) =>
         \A idn \in Identities : Entry(IdleCall, r.op, idn, r.arg).result = r.result

(***************************************************************************)
(* C9 (as stated): once the event insert of a create request has           *)
(* succeeded, the row is in storage when the request returns, and the      *)
(* result is success, its data the inserted row (the id assigned, the      *)
(* submitted name, the caller as owner) and its message 'Event created     *)
(* successfully', however the venue and link inserts that follow fail.     *)
(***************************************************************************)
C9_CreateReturnsInsertedRow ==
  \A c \in Calls :
    LET r == calls[c]
    IN (r.pc = "done" /\ r.op = "create" /\ r.ev # NoRow) =>
         /\ r.ev \in events
         /\ Effect("events", "insert", r.ev.id) \in r.effects
         /\ r.ev.id \in {EventId(n) : n \in 1..MaxEvents}
         /\ r.ev.name = r.arg.obj.name
         /\ r.ev.user_id = r.idn.user
         /\ r.result = [success |-> TRUE, data |-> r.ev,
                        message |-> "Event created successfully"]

(***************************************************************************)
(* C10: when the event insert of a create request yields no row, the       *)
(* request ends there, no row of any table has been written by it, and     *)
(* unless the insert threw the result is the error 'Failed to create       *)
(* event'; venue and link writes are issued only by requests that hold     *)
(* their inserted event row.                                               *)
(***************************************************************************)
C10_Step ==
  \A c \in Calls :
    LET r == calls'[c]
    IN /\ (calls[c].pc = "insertEvent" /\ r # calls[c] /\ r.ev = NoRow) =>
            /\ r.pc = "done"
            /\ store' = store
            /\ r.effects = {}
            /\ ~r.revalidated
            /\ r.fault # "throw" => r.result = Err("Failed to create event")
       /\ (r.op = "create" /\ r.pc \in {"insertVenue", "insertLink"}) => r.ev \in events'

C10_FailedInsertPersistsNothing == [][C10_Step]_vars

\* the insert reported an error: an error result and empty tables
C10_Witness ==
  /\ calls["c1"].pc = "done"
  /\ calls["c1"].op = "create"
  /\ calls["c1"].invoked
  /\ calls["c1"].ev = NoRow
  /\ calls["c1"].fault = "error"
  /\ calls["c1"].result = Err("Failed to create event")
  /\ store = <<{}, {}, {}>>

(***************************************************************************)
(* Helpers of the round trip: a create that is done, succeeded, and linked *)
(* each of its N submitted venues, and the read of the id it returned.     *)
(***************************************************************************)
LinkedAll(r) ==
  /\ r.pc = "done" /\ r.op = "create" /\ r.fault = "none"
  /\ r.result.success
  /\ Cardinality({x \in r.effects : x.table = "event_venues" /\ x.kind = "insert"})
       = Len(r.input.venues)

ReadBack(w, g) ==
  /\ LinkedAll(w)
  /\ g.pc = "done" /\ g.op = "getEventById" /\ g.fault = "none"
  /\ g.input.id = w.result.data.id

VenueFields == {"address", "city", "state"}

\* the returned venue carries the submitted fields as they were submitted
SameAsSubmitted(row, sub) ==
  /\ row.name = sub.name
  /\ \A k \in VenueFields : row[k] = IF Has(sub, k) THEN sub[k] ELSE Null

\* the returned venue is what the code stores or reuses for the submitted one
StoredFor(row, sub, inserted) ==
  IF NoVenueId(sub)
  THEN /\ row.id \in inserted
       /\ row.name = sub.name
       /\ \A k \in VenueFields : row[k] = IF Has(sub, k) /\ sub[k] # "" THEN sub[k] ELSE Null
  ELSE row.id = sub.id /\ row \in venues

\* C11 (as stated): after a create with N venues in which no storage call
\* faulted, getEventByIdAction on the returned id returns exactly N venues,
\* each carrying the submitted name, address, city and state.
C11_RoundTripSubmittedFields ==
  LET w == calls["c1"]
      g == calls["c2"]
  IN ReadBack(w, g) =>
       /\ g.result.success
       /\ LET vs == g.result.data.venues.array
              n == Len(w.input.venues)
          IN /\ Len(vs) = n
             /\ \E p \in SeqsOf(1..n) :
                  \A i \in 1..n : SameAsSubmitted(vs[p[i]], w.input.venues[i])

\* C11 (amended): after such a create, getEventByIdAction on the returned id
\* succeeds with the created event row and exactly N venues, one per
\* submitted venue: for a venue submitted without an id, a row this create
\* inserted, with the submitted name and with address, city and state as
\* submitted, an empty or absent one as null; for a venue submitted with an
\* id, the stored row of that id, whatever fields were submitted with it.
C11_RoundTrip ==
  LET w == calls["c1"]
      g == calls["c2"]
  IN ReadBack(w, g) =>
       /\ g.result.success
       /\ \A k \in DOMAIN w.result.data : g.result.data[k] = w.result.data[k]
       /\ LET vs == g.result.data.venues.array
              n == Len(w.input.venues)
              inserted == {x.id : x \in {y \in w.effects : y.table = "venues" /\ y.kind = "insert"}}
          IN /\ Len(vs) = n
             /\ \E p \in SeqsOf(1..n) :
                  \A i \in 1..n : StoredFor(vs[p[i]], w.input.venues[i], inserted)

\* a create with a new venue and a venue submitted by id, read back
C11_Witness ==
  /\ ReadBack(calls["c1"], calls["c2"])
  /\ calls["c1"].input.venues = <<NewVenue, RenamedVenue(1)>>
  /\ calls["c2"].result.success

(***************************************************************************)
(* Helpers of the venue replacement: what a request did to the tables.     *)
(***************************************************************************)
EffectIds(r, table, kind) == {x.id : x \in {y \in r.effects : y.table = table /\ y.kind = kind}}

\* the submitted venue names a venue by its id
ById(v) == Has(v, "id") /\ v.id # ""

VenueIdsOf(L, id) == {l.venue_id : l \in LinksOf(L, id)}

\* an update by the owner is done, no storage call faulted, the event was
\* linked to two venues, and the submitted list holds one of them by its id
\* and one venue without an id
ReplacedVenues(r) ==
  /\ r.pc = "done" /\ r.op = "update" /\ r.fault = "none"
  /\ r.result.success
  /\ Cardinality(EffectIds(r, "event_venues", "delete")) = 2
  /\ Len(r.input.venues) = 2
  /\ \E i, j \in 1..2 :
       /\ i # j
       /\ ById(r.input.venues[i])
       /\ LinkKey([event_id |-> r.input.id, venue_id |-> r.input.venues[i].id])
            \in EffectIds(r, "event_venues", "delete")
       /\ ~ById(r.input.venues[j])

\* what the replacement leaves in the tables L (links) and V (venues)
ReplacedBy(r, L, V) ==
  \E i, j \in 1..2 :
    LET B == r.input.venues[i].id
        sub == r.input.venues[j]
        old == EffectIds(r, "event_venues", "delete")
        new == EffectIds(r, "venues", "insert")
    IN /\ i # j /\ ById(r.input.venues[i]) /\ ~ById(sub)
       /\ Cardinality(new) = 1
       /\ \A C \in new :
            /\ C # B
            /\ VenueIdsOf(L, r.input.id) = {B, C}
            /\ \E v \in V : v.id = C /\ v.name = sub.name
            /\ Cardinality({v \in V : v.id = B}) = 1
            /\ \A k \in old :
                 k # LinkKey([event_id |-> r.input.id, venue_id |-> B])
                   => k \notin {LinkKey(l) : l \in L}

\* the step that completes the update
C12_Step ==
  \A c \in Calls :
    (calls[c].pc # "done" /\ ReplacedVenues(calls'[c])) => ReplacedBy(calls'[c], links', venues')

\* C12: when the owner updates an event linked to venues {A, B} with the list
\* {B by its id, C without an id} and no storage call faults, afterwards the
\* event is linked to exactly {B, C}: no venue row was inserted for B, the
\* link to A is gone, and exactly one venue row was inserted, for C.
C12_VenueReplacement == [][C12_Step]_vars

\* the event of venues {v1, v2} was updated with a new venue and v1
C12_Witness ==
  /\ ReplacedVenues(calls["c1"])
  /\ VenueIdsOf(links, calls["c1"].input.id) = {VenueId(1), VenueId(3)}
  /\ calls["c1"].input.venues = <<NewVenue, ExistingVenue(1)>>

\* an update that reached its handler is done, no storage call faulted, and
\* no event row carries the id it targeted
UpdatedMissing(r) ==
  /\ r.pc = "done" /\ r.op = "update" /\ r.invoked /\ r.fault = "none"
  /\ \A e \in events : e.id # r.input.id

\* C13: updateEventAction on an id for which no event row exists returns an
\* error result reporting 'Event not found', and the call creates, changes
\* and deletes no row.
C13_MissingUpdateReportsNotFound ==
  LET r == calls["c1"]
  IN UpdatedMissing(r) =>
       /\ r.result = Err("Event not found")
       /\ r.effects = {}

\* the request in slot c1 was a delete by the owner that removed the event
\* row, and the request in slot c2 is a delete of the same id by the same user
DeletedTwice(first, second) ==
  /\ first.pc = "done" /\ first.op = "delete" /\ first.fault = "none"
  /\ Effect("events", "delete", first.input.id) \in first.effects
  /\ second.op = "delete" /\ second.user = first.user
  /\ second.input.id = first.input.id

\* the step that completes the second delete
C14_Step ==
  ( /\ DeletedTwice(calls["c1"], calls["c2"])
    /\ calls["c2"].pc = "deleteEvent"
    /\ calls'["c2"].pc = "done" )
  => /\ calls["c1"].result.success
     /\ calls'["c2"].result.success
     /\ calls'["c2"].result = calls["c1"].result
     /\ calls'["c2"].fault = "none"
     /\ calls'["c2"].effects = {}
     /\ store' = store

\* C14: when the owner calls deleteEventAction twice on the same id, both
\* calls return a success result; the second matches no row, raises no
\* error, and leaves the tables as the first call left them.
C14_DeleteTwice == [][C14_Step]_vars

\* both deletes are done: the first removed the row, the second nothing
C14_Witness ==
  /\ DeletedTwice(calls["c1"], calls["c2"])
  /\ calls["c2"].pc = "done"
  /\ calls["c2"].effects = {}
  /\ calls["c2"].result.success

\* the success result of deleteEventAction
DeletedResult == [success |-> TRUE, data |-> NoData, message |-> "Event deleted successfully"]

\* the delete of request c completes without a fault
DeleteCompletes(c) ==
  /\ calls[c].op = "delete" /\ calls[c].pc = "deleteEvent"
  /\ calls'[c].pc = "done" /\ calls'[c].fault = "none"

OwnedByOther(r) == \E e \in events : e.id = r.input.id /\ e.user_id # r.user

C15_Step ==
  \A c \in Calls :
    /\ (DeleteCompletes(c) /\ OwnedByOther(calls[c]))
         => store' = store /\ calls'[c].result = DeletedResult
    /\ (DeleteCompletes(c) /\ \A e \in events : e.id # calls[c].input.id)
         => calls'[c].result = DeletedResult

\* C15: a deleteEventAction call by a signed-in user who does not own the
\* targeted event leaves the event row and its link rows in place and returns
\* the success result 'Event deleted successfully', the same result as a
\* call on an id that no event carries.
C15_NonOwnerDeleteLooksDeleted == [][C15_Step]_vars

\* a non-owner's delete is done with the success result; the event and a
\* link of it are still there
C15_Witness ==
  LET r == calls["c1"]
  IN /\ r.pc = "done" /\ r.op = "delete" /\ r.invoked /\ r.fault = "none"
     /\ OwnedByOther(r)
     /\ LinksOf(links, r.input.id) # {}
     /\ r.result = DeletedResult

\* every link row references an event row and a venue row that exist
LinksReferToRows ==
  \A l \in links : (\E e \in events : e.id = l.event_id) /\ (\E v \in venues : v.id = l.venue_id)

C16_Step ==
  \A c \in Calls :
    \* a link insert that succeeds inserts a pair no link row holds yet
    /\ \A k \in EffectIds(calls'[c], "event_venues", "insert")
                  \ EffectIds(calls[c], "event_venues", "insert") :
         k \notin {LinkKey(l) : l \in links}
    \* a delete that removed the event row leaves no link of that event
    /\ (calls[c].pc = "deleteEvent"
          /\ Effect("events", "delete", calls[c].input.id) \in calls'[c].effects)
         => LinksOf(links', calls[c].input.id) = {}

\* C16: under any interleaving of create, update and delete calls, in every
\* reachable state every link row references an event row and a venue row
\* that both exist; a link insert never adds a pair that a link row already
\* holds; and after the owner's delete of an event no link row with that
\* event id remains.
C16_LinkIntegrity == []LinksReferToRows /\ [][C16_Step]_vars

\* the owner's delete removed an event whose create is still in flight, about
\* to link a venue to it
C16_Witness ==
  \E c, d \in Calls :
    /\ c # d
    /\ calls[c].pc = "done" /\ calls[c].op = "delete"
    /\ Effect("events", "delete", calls[c].input.id) \in calls[c].effects
    /\ calls[d].op = "create" /\ calls[d].pc \in {"insertVenue", "insertLink"}
    /\ calls[d].ev.id = calls[c].input.id

(***************************************************************************)
(* Helpers of the list: what a finished getEventsAction returned.          *)
(***************************************************************************)
\* a getEventsAction call with filters that are strings is done, and none of
\* its storage calls faulted
Listed(g) ==
  /\ g.pc = "done" /\ g.op = "getEvents" /\ g.invoked /\ g.fault = "none"
  /\ \A k \in DOMAIN g.input : g.input[k] \notin NonStrings

\* the event row inside an EventWithVenues
EventOf(x) == [k \in DOMAIN x \ {"venues"} |-> x[k]]

ReturnedEvents(g) == {EventOf(g.result.data.array[i]) : i \in 1..Len(g.result.data.array)}

\* `term` occurs in `text` as a run of consecutive characters, case aside
ContainsFolded(text, term) ==
  \E i \in 1..(Len(text) + 1) :
    /\ i + Len(term) - 1 <= Len(text)
    /\ LowerSeq(SubSeq(text, i, i + Len(term) - 1)) = LowerSeq(term)

\* the events the filters of the request admit: the name contains the trimmed
\* search term, the sport type equals the trimmed sportType; a blank or absent
\* filter admits every event
Admitted(input) ==
  {e \in events :
     /\ Term(input, "search") # <<>> => ContainsFolded(Chars(e.name), Term(input, "search"))
     /\ Term(input, "sportType") # <<>> => Chars(e.sport_type) = Term(input, "sportType")}

\* C17: getEventsAction returns, in a success result, exactly the event rows
\* whose name contains the search term as a case-insensitive substring (when
\* the term is not blank) and whose sport_type equals sportType (when it is
\* not blank), each once, ordered by date_time ascending; all events when
\* neither filter is given, and an empty list when no event qualifies.
C17_ListIsFilteredAndOrdered ==
  LET g == calls["c2"]
  IN Listed(g) =>
       /\ g.result.success
       /\ ReturnedEvents(g) = Admitted(g.input)
       /\ Len(g.result.data.array) = Cardinality(Admitted(g.input))
       /\ \A i, j \in 1..Len(g.result.data.array) :
            i < j => TimeOf(g.result.data.array[i].date_time)
                       <= TimeOf(g.result.data.array[j].date_time)

\* a read action is done with a success result and none of its storage
\* calls faulted
ReadSucceeded(g) ==
  /\ g.pc = "done" /\ g.op \in ReadOps /\ g.invoked /\ g.fault = "none"
  /\ g.result.success

\* the EventWithVenues values of a read's result
Projections(g) ==
  IF g.op = "getEvents"
  THEN {g.result.data.array[i] : i \in 1..Len(g.result.data.array)}
  ELSE {g.result.data}

\* the venue rows that link rows attach to the event
LinkedVenueRows(id) == {v \in venues : \E l \in links : l.event_id = id /\ l.venue_id = v.id}

\* C18: when the link and venue queries succeed and no writer runs
\* concurrently, every event returned by getEventsAction or
\* getEventByIdAction carries as its venues exactly the venue rows whose ids
\* appear in link rows of that event, each once; an event without links
\* carries an empty list.
C18_VenuesAreTheLinkedRows ==
  LET g == calls["c2"]
  IN ReadSucceeded(g) =>
       \A x \in Projections(g) :
         /\ {x.venues.array[i] : i \in 1..Len(x.venues.array)} = LinkedVenueRows(x.id)
         /\ Len(x.venues.array) = Cardinality(LinkedVenueRows(x.id))
         /\ LinksOf(links, x.id) = {} => x.venues.array = <<>>

\* a list with an event of two venues and an event without links, while a
\* venue exists
C18_Witness ==
  LET g == calls["c2"]
  IN /\ ReadSucceeded(g) /\ g.op = "getEvents"
     /\ \E x, y \in Projections(g) : Len(x.venues.array) = 2 /\ y.venues.array = <<>>

\* a getEventByIdAction call is done and none of its storage calls faulted
Fetched(g) == g.pc = "done" /\ g.op = "getEventById" /\ g.fault = "none"

\* C19: getEventByIdAction requires no authentication: whether or not the
\* caller has a resolved identity, for an id that no event row carries it
\* returns the error 'Event not found' and has issued no link and no venue
\* query, and for an id of an event row it returns a success result with
\* that event.
C19_GetByIdNeedsNoIdentity ==
  LET g == calls["c2"]
  IN Fetched(g) =>
       /\ g.invoked
       /\ (\A e \in events : e.id # g.arg.value)
            => g.result = Err("Event not found") /\ g.queries = {"events"}
       /\ (\E e \in events : e.id = g.arg.value)
            => g.result.success /\ g.result.data.id = g.arg.value

\* a caller without an identity fetched an existing event
C19_Witness ==
  LET g == calls["c2"]
  IN /\ Fetched(g) /\ g.idn.kind = "none"
     /\ \E e \in events : e.id = g.arg.value
     /\ g.result.success

(***************************************************************************)
(* Helpers of the success result: what the handler returned and what the   *)
(* action was configured with.                                             *)
(***************************************************************************)
\* the handler returned an object that has a 'data' and a 'message' property
HasDataAndMessage(v) ==
  /\ v \notin {NoData, JsNull}
  /\ ~Has(v, "string")
  /\ Has(v, "data") /\ Has(v, "message")

\* the handler has returned and createAction has built its result
Built(r) == r.pc = "done" /\ r.op = "handler"

\* a message that is a string and not the empty one
IsText(m) == m \notin {"", Undefined, Null}

\* C20 (as stated): when the handler returns an object with a 'data' and a
\* 'message' property, the result's data is that 'data' and its message is
\* the handler's message; otherwise the result's data is the raw return
\* value and its message is the configured successMessage, absent if none is
\* configured.
C20_HandlerMessageAlwaysWins ==
  LET r == calls["c1"]
      v == r.ev
      res == r.result
  IN Built(r) =>
       /\ res.success
       /\ IF HasDataAndMessage(v)
          THEN res.data = v.data /\ Has(res, "message") /\ res.message = v.message
          ELSE /\ res.data = v
               /\ IF Has(r.input, "successMessage")
                  THEN Has(res, "message") /\ res.message = r.input.successMessage
                  ELSE ~Has(res, "message")

\* C20 (amended): when the handler returns an object with a 'data' and a
\* 'message' property, the result's data is that 'data' and its message is
\* the handler's message if that is a non-empty string, else the configured
\* successMessage (undefined if none is configured); otherwise the result's
\* data is the raw return value and its message is the configured
\* successMessage if that is a non-empty string, and absent if it is empty
\* or not configured.
C20_SuccessResult ==
  LET r == calls["c1"]
      v == r.ev
      res == r.result
      configured == IF Has(r.input, "successMessage") THEN r.input.successMessage ELSE Undefined
  IN Built(r) =>
       /\ res.success
       /\ IF HasDataAndMessage(v)
          THEN /\ res.data = v.data
               /\ Has(res, "message")
               /\ res.message = IF IsText(v.message) THEN v.message ELSE configured
          ELSE /\ res.data = v
               /\ IF IsText(configured)
                  THEN Has(res, "message") /\ res.message = configured
                  ELSE ~Has(res, "message")

\* the handler returned {data, message: 'Custom'} to an action configured
\* with 'Saved': the result carries 'Custom'
C20_Witness ==
  LET r == calls["c1"]
  IN /\ Built(r)
     /\ r.ev = [data |-> SomeRow, message |-> "Custom"]
     /\ Has(r.input, "successMessage") /\ r.input.successMessage = "Saved"
     /\ r.result = [success |-> TRUE, data |-> SomeRow, message |-> "Custom"]

\* the fixed error texts of the event actions and of createAction
GenericMessages ==
  {"Failed to create event", "Failed to update event", "Failed to delete event",
   "Failed to fetch events", "Event not found",
   "An unexpected error occurred", "An unexpected error occurred. Please try again."}

\* C21: when a storage call of an event action reports an error or throws,
\* the error text of the result returned to the caller is one of the fixed
\* generic messages, never the message of the fault.
C21_FaultsSurfaceGenericText ==
  \A c \in Calls :
    LET r == calls[c]
    IN (r.pc = "done" /\ r.fault # "none" /\ ~r.result.success)
         => r.result.error \in GenericMessages


(***************************************************************************)
(* RaceSpec: one signed-in user sends creates, updates and deletes, two at *)
(* a time, interleaved at their storage calls; every storage call succeeds *)
(* or fails by a constraint, none faults.  Results are handed back once no *)
(* request is in flight, so two overlapping requests are seen done together.*)
(***************************************************************************)
Owner == "u1"

InvokeOwner(c) ==
  /\ calls[c].pc = "idle"
  /\ requests < MaxRequests + 1
  /\ requests' = requests + 1
  /\ \E op \in Ops : \E arg \in ConcurrentArgs(op) :
       LET r == Entry(IdleCall, op, [kind |-> "user", user |-> Owner], arg)
       IN /\ (nextEventId - 1) + PendingEventsOf(Calls) + PendingEvents(r) <= MaxEvents
          /\ (nextVenueId - 1) + PendingVenuesOf(Calls) + PendingVenues(r) <= MaxVenues + 1
          /\ calls' = [calls EXCEPT ![c] = r]
  /\ UNCHANGED <<variant, accounts, profiles, sessions, events, venues, links, nextEventId, nextVenueId>>

NoneRunning == \A c \in Calls : ~(calls[c].pc \notin {"idle", "done"})

RaceNext ==
  \/ \E c \in Calls : InvokeOwner(c)
  \/ \E c \in Calls : WriteStep(c)
  \/ NoneRunning /\ \E c \in Calls : Return(c)

RaceSpec == Init /\ [][RaceNext]_vars

\* the venue ids a finished create or update resolved its submitted list to
Resolved(r) ==
  EffectIds(r, "venues", "insert")
    \cup {r.input.venues[i].id : i \in {j \in 1..Len(r.input.venues) : ById(r.input.venues[j])}}

\* the stored row holds the fields this request submitted
HoldsFieldsOf(e, r) ==
  /\ e.name = r.input.name
  /\ e.sport_type = r.input.sport_type
  /\ e.date_time = r.input.date_time
  /\ e.description = OrNull(r.input, "description")

\* the event's links are the venues this request resolved, as far as they exist
HoldsLinksOf(id, r) ==
  VenueIdsOf(links, id) = Resolved(r) \cap {v.id : v \in venues}

(***************************************************************************)
(* UpdateRaceSpec: the owner's event, linked to one venue, as a create     *)
(* leaves it; the owner sends updates, two at a time, interleaved at their *)
(* storage calls, every storage call with any outcome.  Results are handed *)
(* back once no request is in flight.                                      *)
(***************************************************************************)
StoredEvent == NewEventRow(F1, Owner, 1)
StoredVenue == NewVenueRow(NewVenue, 1)

UpdateRaceInit ==
  /\ variant \in Variants
  /\ events = {StoredEvent}
  /\ venues = {StoredVenue}
  /\ links = {[event_id |-> StoredEvent.id, venue_id |-> StoredVenue.id]}
  /\ accounts = {}
  /\ profiles = {}
  /\ sessions = {}
  /\ nextEventId = 2
  /\ nextVenueId = 2
  /\ calls = [c \in Calls |-> IdleCall]
  /\ requests = 0

InvokeUpdate(c) ==
  /\ calls[c].pc = "idle"
  /\ requests < MaxRequests
  /\ requests' = requests + 1
  /\ \E arg \in ConcurrentArgs("update") :
       LET r == Entry(IdleCall, "update", [kind |-> "user", user |-> Owner], arg)
       IN /\ (nextVenueId - 1) + PendingVenuesOf(Calls) + PendingVenues(r) <= MaxVenues + 1
          /\ calls' = [calls EXCEPT ![c] = r]
  /\ UNCHANGED <<variant, accounts, profiles, sessions, events, venues, links, nextEventId, nextVenueId>>

\* one storage call of an update completes, with any outcome
UpdateStep(c) ==
  \/ FetchOwner(c)
  \/ UpdateEvent(c)
  \/ DeleteLinks(c)
  \/ InsertVenue(c)
  \/ InsertLink(c)

UpdateRaceNext ==
  \/ \E c \in Calls : InvokeUpdate(c)
  \/ \E c \in Calls : UpdateStep(c)
  \/ NoneRunning /\ \E c \in Calls : Return(c)

UpdateRaceSpec == UpdateRaceInit /\ [][UpdateRaceNext]_vars

\* the two requests sent so far are updates of the same event, and both are
\* done, with whatever result
BothCompleted ==
  /\ requests = 2
  /\ \A c \in Calls : calls[c].pc = "done" /\ calls[c].op = "update" /\ calls[c].invoked
  /\ calls["c1"].input.id = calls["c2"].input.id

\* both succeeded, and no storage call of either reported an error or threw
BothUpdated ==
  /\ BothCompleted
  /\ \A c \in Calls : calls[c].result.success /\ calls[c].fault = "none"

\* C22 (as stated): after two updates of one event by its owner have both
\* completed, the event's fields and its linked venues are those of exactly
\* one of the two calls; fields and links are never mixed, links never
\* united.  Stated for the runs in which no storage call fails.
C22_LastWriterWinsWhole ==
  BothUpdated =>
    \A e \in events :
      e.id = calls["c1"].input.id =>
        \E c \in Calls : HoldsFieldsOf(e, calls[c]) /\ HoldsLinksOf(e.id, calls[c])

\* the request has written the event's row
WroteFields(r, id) == Effect("events", "update", id) \in r.effects

\* after both updates the row holds the fields of a call that wrote it, or
\* the row as it was when neither did; every link is one the event had or
\* leads to a venue one of the calls resolved
C22_Final ==
  BothCompleted =>
    \A e \in events :
      e.id = calls["c1"].input.id =>
        /\ IF \E c \in Calls : WroteFields(calls[c], e.id)
           THEN \E c \in Calls : WroteFields(calls[c], e.id) /\ HoldsFieldsOf(e, calls[c])
           ELSE e = StoredEvent
        /\ VenueIdsOf(links, e.id) \subseteq
             {StoredVenue.id} \cup Resolved(calls["c1"]) \cup Resolved(calls["c2"])

\* every storage call takes effect by itself, over whatever the other call
\* wrote: the events update that succeeds leaves the row with the fields of
\* its own call, and only such a step changes a row; the link deletion that
\* succeeds removes every link of the event; a link insert adds one link to
\* a venue its call resolved; no other step changes the links
C22_Step ==
  \A c \in Calls :
    LET r == calls[c]
        q == calls'[c]
        wrote == r.pc = "updateEvent" /\ q.pc = "deleteLinks"
    IN q # r =>
         /\ wrote =>
              \E e \in events :
                /\ e.id = r.input.id
                /\ events' = (events \ {e}) \cup {q.ev}
                /\ q.ev.id = e.id /\ q.ev.user_id = e.user_id
                /\ HoldsFieldsOf(q.ev, r)
         /\ ~wrote => events' = events
         /\ (r.pc = "deleteLinks" /\ q.fault = "none") =>
              links' = {l \in links : l.event_id # r.input.id}
         /\ links' # links =>
              \/ r.pc = "deleteLinks" /\ links' = {l \in links : l.event_id # r.input.id}
              \/ /\ r.pc = "insertLink"
                 /\ \E v \in Resolved(q) :
                      links' = links \cup {[event_id |-> r.input.id, venue_id |-> v]}

\* C22: when two updates of one event by its owner overlap, the last writer
\* wins for each storage call and not for the request: the stored fields
\* are those of the call whose events update was applied last, the links
\* are what the last link deletion left and the link inserts after it
\* added; the fields of one call can stand with links that are not that
\* call's venues.
C22_LastWriterWinsPerTable == []C22_Final /\ [][C22_Step]_vars

\* two overlapping updates are done: the fields of one, and as links the
\* union of the venues of both
C22_Witness ==
  /\ BothUpdated
  /\ \E e \in events : \E c, d \in Calls :
       /\ e.id = calls[c].input.id /\ c # d
       /\ HoldsFieldsOf(e, calls[c]) /\ ~HoldsFieldsOf(e, calls[d])
       /\ Resolved(calls[c]) # {} /\ Resolved(calls[d]) # {}
       /\ Resolved(calls[c]) \cap Resolved(calls[d]) = {}
       /\ VenueIdsOf(links, e.id) = Resolved(calls[c]) \cup Resolved(calls[d])


\* C23: every update that returns a success result has removed the links the
\* event had before: afterwards the event's linked venues are among the
\* venues resolved from the submitted list, whatever errors the link
\* deletion, the venue inserts and the link inserts reported.
C23_SuccessfulUpdateReplacesLinks ==
  \A c \in Calls :
    LET r == calls[c]
    IN (r.pc = "done" /\ r.op = "update" /\ r.invoked /\ r.result.success)
         => VenueIdsOf(links, r.input.id) \subseteq Resolved(r)


\* a storage call of the venue loop of an update throws in this step
ThrowsInVenueLoop(c) ==
  /\ calls[c].op = "update"
  /\ calls[c].pc \in {"insertVenue", "insertLink"}
  /\ calls[c].fault # "throw"
  /\ calls'[c].fault = "throw"

\* the links of event id are the ones request r inserted
LinkedByRequest(L, id, r) ==
  {LinkKey(l) : l \in LinksOf(L, id)} = EffectIds(r, "event_venues", "insert")

C24_Step ==
  \A c \in Calls :
    ThrowsInVenueLoop(c) =>
      LET r == calls'[c]
      IN /\ r.pc = "done"
         /\ ~r.result.success
         /\ \E e \in events' : e.id = r.input.id /\ HoldsFieldsOf(e, r)
         /\ <<events, venues, links>>' = <<events, venues, links>>
         /\ calls[c].fault = "none" => LinkedByRequest(links', r.input.id, r)

\* C24: when a storage call of an update's venue loop throws, after the link
\* deletion, the action returns an error result, the event row keeps the
\* fields the update wrote, nothing is rolled back, and (the earlier calls
\* having reported no error) the event is linked to just the venues this
\* request linked before the fault.
C24_UpdateIsNotAtomic == [][C24_Step]_vars

\* an update that removed a link and linked one venue has failed on a throw
\* at its second venue
C24_Witness ==
  \E c \in Calls :
    LET r == calls[c]
    IN /\ r.pc = "done" /\ r.op = "update" /\ r.fault = "throw"
       /\ ~r.result.success
       /\ r.i = 2
       /\ EffectIds(r, "event_venues", "delete") # {}
       /\ LinkedByRequest(links, r.input.id, r)
       /\ Cardinality(LinksOf(links, r.input.id)) = 1
       /\ EffectIds(r, "event_venues", "delete") # EffectIds(r, "event_venues", "insert")


\* request c, an update, returns a success result in this step
UpdateSucceeds(c) ==
  /\ calls[c].op = "update"
  /\ Running(calls[c])
  /\ calls'[c].pc = "done"
  /\ calls'[c].result.success

C25_Step ==
  \A c \in Calls :
    UpdateSucceeds(c) => \E e \in events' : e.id = calls[c].input.id

\* C25: whenever an update returns a success result, the event row it
\* targeted is in storage at that moment, also when a delete of the same
\* event by the same owner runs concurrently.
C25_SuccessfulUpdateTargetExists == [][C25_Step]_vars


\* C26: a create, update or delete that changed a stored row has issued the
\* dashboard invalidation when it returns, whatever its result; a call
\* rejected by validation or authentication has issued none.
C26_WritesInvalidateDashboard ==
  \A c \in Calls :
    LET r == calls[c]
    IN (r.pc = "done" /\ r.op \in Ops) =>
         /\ r.effects # {} => r.revalidated
         /\ ~r.invoked => ~r.revalidated /\ r.effects = {}


\* the venue row v is inserted by request r for a submitted venue without id
InsertedFor(v, r) ==
  /\ r.op \in {"create", "update"}
  /\ r.pc = "insertVenue"
  /\ NoVenueId(r.input.venues[r.i])
  /\ v.name = r.input.venues[r.i].name
  /\ \A w \in venues : w.id # v.id

C27_Step ==
  /\ venues \subseteq venues'
  /\ Cardinality(venues' \ venues) <= 1
  /\ \A v \in venues' \ venues :
       \E c \in Calls : InsertedFor(v, calls[c]) /\ calls'[c].pc = "insertLink"
  /\ \A c \in Calls :
       (Running(calls[c]) /\ calls'[c].pc = "done" /\ calls'[c].op \in {"create", "update"})
         => Cardinality(EffectIds(calls'[c], "venues", "insert"))
              <= NewVenueCount(calls[c].input.venues, 1)

\* C27: no step of an event action removes or changes a venue row; the only
\* venue rows that appear are inserted, one at a time, by a create or update
\* for a submitted venue without an id, at most one per such venue; updates
\* and deletes of an event leave the venues it was linked to in storage.
C27_VenueRowsAreOnlyInserted == [][C27_Step]_vars

\* an event that was linked to a venue has been deleted, and the venue row
\* is in storage, linked to nothing
C27_Witness ==
  \E c \in Calls :
    LET r == calls[c]
    IN /\ r.pc = "done" /\ r.op = "delete"
       /\ \E k \in EffectIds(r, "event_venues", "delete") :
            \E v \in venues : k = LinkKey([event_id |-> r.input.id, venue_id |-> v.id])
       /\ links = {}


\* the events query of list request g reported an error
EventsQueryFaulted(g) == g.fault = "error" /\ g.queries = {"events"}

\* a link or venue query of list request g reports its first error in this step
LinkOrVenueQueryFails(c) ==
  /\ calls[c].op = "getEvents"
  /\ calls[c].pc = "eventLoop"
  /\ calls[c].fault = "none"
  /\ calls'[c].fault = "error"

\* the event whose query failed is emitted with no venues, and the list goes on
EmittedWithoutVenues(c) ==
  LET g == calls[c]
  IN /\ \E i \in Outstanding(g) :
          calls'[c].tasks = [g.tasks EXCEPT ![i] =
            [st |-> "done", venueIds |-> {}, value |-> WithVenues(g.rows[i], <<>>)]]
     /\ calls'[c].pc = "done" => calls'[c].result.success

\* the argument is rejected before any query: the action built by createAction
\* is called with a filter that is not a string or with no object at all, the
\* plain function with a filter that is not a string and not falsy
BadFilter(g) ==
  \/ /\ g.arg.type = "object"
     /\ \E k \in DOMAIN g.arg.obj \cap {"search", "sportType"} :
          g.arg.obj[k] \in (IF variant = "wrapped" THEN NonStrings ELSE {NotAString})
  \/ variant = "wrapped" /\ g.arg.type # "object"

\* C28 (as stated): getEventsAction returns an error result if and only if
\* the events query reports an error or a call throws; an error that a link
\* or venue query reports is not surfaced, the event is emitted with no venues.
C28_ListFailsOnlyOnQueryFault ==
  /\ [](\A c \in Calls :
          LET g == calls[c]
          IN (g.pc = "done" /\ g.op = "getEvents")
               => (~g.result.success <=> (EventsQueryFaulted(g) \/ g.fault = "throw")))
  /\ [][\A c \in Calls : LinkOrVenueQueryFails(c) => EmittedWithoutVenues(c)]_vars

\* C28: getEventsAction returns an error result if and only if its input is
\* rejected (for the action built by createAction a filter that is not a
\* string or an argument that is no object, for the plain function a filter
\* that is neither a string nor falsy), the events query reports an error,
\* or a call throws; an error that a link or venue query reports is not surfaced, the
\* event is emitted with no venues.
C28_ListFailsOnlyOnBadInputOrQueryFault ==
  /\ [](\A c \in Calls :
          LET g == calls[c]
          IN (g.pc = "done" /\ g.op = "getEvents")
               => (~g.result.success
                     <=> (BadFilter(g) \/ EventsQueryFaulted(g) \/ g.fault = "throw")))
  /\ [][\A c \in Calls : LinkOrVenueQueryFails(c) => EmittedWithoutVenues(c)]_vars

\* a list of two events is returned in a success result, a link or venue
\* query of which reported an error: one event has its venue, one has none
C28_Witness ==
  \E c \in Calls :
    LET g == calls[c]
    IN /\ g.pc = "done" /\ g.op = "getEvents" /\ g.fault = "error"
       /\ g.result.success
       /\ \E x, y \in Projections(g) :
            /\ x.venues.array = <<>> /\ LinksOf(links, x.id) # {}
            /\ y.venues.array # <<>>


(***************************************************************************)
(* EventList's client-side filter over the events it fetched once.         *)
(***************************************************************************)
\* allEvents.filter(...): a search that is not empty must occur in the name,
\* both in lower case; a sportType that is not empty must equal sport_type
filteredEvents(allEvents, search, sportType) ==
  {event \in allEvents :
     /\ search # "" => ContainsFolded(Chars(event.name), Chars(search))
     /\ sportType # "" => event.sport_type = sportType}

\* the filter text a list request carries, '' when it carries none
FilterText(g, k) == IF Has(g.input, k) THEN g.input[k] ELSE ""

\* C29: for every stored list of events and every search and sportType, the
\* client-side filter of EventList selects the events that getEventsAction
\* returns for the same search and sportType.
C29_ClientFilterMatchesServer ==
  LET g == calls["c2"]
  IN (Listed(g) /\ g.result.success) =>
       filteredEvents(events, FilterText(g, "search"), FilterText(g, "sportType"))
         = ReturnedEvents(g)


(***************************************************************************)
(* Authentication: signUpAction, loginAction and logoutAction of           *)
(* auth.actions.ts and the GET handler of the /auth/callback route.  The   *)
(* identity service holds the accounts and the sessions; each of its calls *)
(* reports an error, throws, or answers.  LoginSpec: up to MaxRequests     *)
(* requests one after the other, every input and every answer of the       *)
(* service and of storage.                                                 *)
(***************************************************************************)
InvalidEmailMsg == "Invalid email address"
PasswordRequiredMsg == "Password is required"

\* the strings of the model that are well-formed e-mail addresses
EmailStrings == {"ann@x.io", "bob@x.io"}

\* the id the identity service gives the account of an address
AccountId(email) == IF email = "ann@x.io" THEN "u1" ELSE "u2"

\* an account made by an OAuth sign-in has no password
NoPassword == "<no password>"

\* z.string().email('Invalid email address')
ZEmail(o, k) ==
  IF ~Has(o, k) THEN <<Issue(<<k>>, RequiredMsg)>>
  ELSE IF o[k] \in NonStrings THEN <<Issue(<<k>>, NotStringMsg)>>
  ELSE IF o[k] \notin EmailStrings THEN <<Issue(<<k>>, InvalidEmailMsg)>>
  ELSE <<>>

\* z.string().min(min, minMsg).max(max, maxMsg)
ZStringRange(o, k, min, minMsg, max, maxMsg) ==
  IF ~Has(o, k) THEN <<Issue(<<k>>, RequiredMsg)>>
  ELSE IF o[k] \in NonStrings THEN <<Issue(<<k>>, NotStringMsg)>>
  ELSE IF Len(o[k]) < min THEN <<Issue(<<k>>, minMsg)>>
  ELSE IF Len(o[k]) > max THEN <<Issue(<<k>>, maxMsg)>>
  ELSE <<>>

\* z.string()
ZString(o, k) ==
  IF ~Has(o, k) THEN <<Issue(<<k>>, RequiredMsg)>>
  ELSE IF o[k] \in NonStrings THEN <<Issue(<<k>>, NotStringMsg)>>
  ELSE <<>>

\* the object of signUpSchema, then its refinement, which zod runs unless a
\* field is missing or has the wrong type
signUpSchema(o) ==
  LET fields ==
        ZStringRange(o, "firstName", 1, "First name is required",
                     100, "First name must be less than 100 characters")
          \o ZStringRange(o, "lastName", 1, "Last name is required",
                          100, "Last name must be less than 100 characters")
          \o ZEmail(o, "email")
          \o ZStringRange(o, "password", 8, "Password must be at least 8 characters",
                          100, "Password must be less than 100 characters")
          \o ZString(o, "confirmPassword")
      typed == \A i \in 1..Len(fields) : fields[i].message \notin {RequiredMsg, NotStringMsg}
  IN fields \o (IF typed /\ o.password # o.confirmPassword
                THEN <<Issue(<<"confirmPassword">>, "Passwords don't match")>>
                ELSE <<>>)

loginSchema(o) == ZEmail(o, "email") \o ZStringMin1(o, "password", <<>>, PasswordRequiredMsg)

\* the catch of the auth actions: error instanceof Error ? error.message : '...'
LoginCatch(fault) ==
  Err(IF fault.isError THEN fault.message ELSE "An unexpected error occurred")

\* a metadata text, '' when the metadata holds none: both are falsy
MetaText(md, k) == IF Has(md, k) THEN md[k] ELSE ""

(* signUpAction *)
ValidSignUp(email, password) ==
  [firstName |-> "Ann", lastName |-> "Lee", email |-> email,
   password |-> password, confirmPassword |-> password]

SignUpArgs ==
  {Obj(ValidSignUp(e, p)) : e \in EmailStrings, p \in {"password-1", "password-2"}}
    \cup {Obj([ValidSignUp("ann@x.io", "password-1") EXCEPT !.firstName = n]) :
            n \in {"", LongName}}
    \cup {Obj([ValidSignUp("ann@x.io", "password-1") EXCEPT !.lastName = NotAString,
                                                            !.confirmPassword = "password-2"]),
          Obj([ValidSignUp("ann@x.io", "password-1") EXCEPT !.email = "not-an-email"]),
          Obj(ValidSignUp("ann@x.io", "short")),
          Obj([ValidSignUp("ann@x.io", "password-1") EXCEPT !.confirmPassword = "password-2"]),
          Obj([ValidSignUp("ann@x.io", "short") EXCEPT !.confirmPassword = ""]),
          Obj([firstName |-> "Ann", lastName |-> "Lee", email |-> "ann@x.io",
               password |-> "password-1"])}

\* the answers of supabase.auth.signUp: {data, error}, or a throw.  For an
\* address that has an account the service reports an error or answers with
\* a user and no session, and creates nothing.
SignUpOutcomes(input) ==
  LET known == {a \in accounts : a.email = input.email}
      user(b) == [id |-> AccountId(input.email), email |-> input.email,
                  password |-> input.password, confirmed |-> b,
                  user_metadata |-> [first_name |-> input.firstName,
                                     last_name |-> input.lastName]]
  IN {[kind |-> "error", message |-> m] :
        m \in {"Request rate limit reached"}
                \cup (IF known # {} THEN {"User already registered"} ELSE {})}
       \cup {[kind |-> "throw", fault |-> f] : f \in Faults}
       \cup {[kind |-> "none"]}
       \cup (IF known = {}
             THEN {[kind |-> "ok", user |-> user(b), session |-> b, created |-> TRUE] :
                     b \in BOOLEAN}
             ELSE {[kind |-> "ok", user |-> user(FALSE), session |-> FALSE,
                    created |-> FALSE]})

\* signUpSchema.safeParse(input), then the try block up to the sign-up
InvokeSignUp(c) ==
  /\ calls[c].pc = "idle"
  /\ requests < MaxRequests
  /\ requests' = requests + 1
  /\ \E arg \in SignUpArgs :
       LET issues == signUpSchema(arg.obj)
           r == [IdleCall EXCEPT !.op = "signUp", !.arg = arg, !.parsed = TRUE]
       IN calls' = [calls EXCEPT ![c] =
            IF issues # <<>>
            THEN Done(r, ErrFields(ValidationFailed, FlattenFieldErrors(issues)))
            ELSE [r EXCEPT !.pc = "signUp", !.invoked = TRUE, !.input = arg.obj]]
  /\ UNCHANGED <<variant, accounts, profiles, sessions, events, venues, links,
                 nextEventId, nextVenueId>>

\* supabase.auth.signUp and the checks of its answer; without a session the
\* action revalidates and asks for the confirmation
SignUp(c) ==
  LET r == calls[c]
  IN /\ r.pc = "signUp"
     /\ UNCHANGED <<variant, profiles, events, venues, links, nextEventId, nextVenueId>>
     /\ \E o \in SignUpOutcomes(r.input) :
          \/ /\ o.kind = "error"
             /\ UNCHANGED <<accounts, sessions>>
             /\ SetCall(c, Done([r EXCEPT !.ev = [error |-> o.message], !.fault = "error"],
                                LoginCatch(NewError(o.message))))
          \/ /\ o.kind = "none"
             /\ UNCHANGED <<accounts, sessions>>
             /\ SetCall(c, Done(r, LoginCatch(NewError("Failed to create user account"))))
          \/ /\ o.kind = "ok" /\ ~o.session
             /\ accounts' = IF o.created THEN accounts \cup {o.user} ELSE accounts
             /\ sessions' = sessions
             /\ SetCall(c, Done([r EXCEPT !.ev = [user |-> o.user, session |-> FALSE],
                                          !.revalidated = TRUE],
                                OkMsg(NoData, "Please check your email to confirm your account")))
          \/ /\ o.kind = "ok" /\ o.session
             /\ accounts' = accounts \cup {o.user}
             /\ sessions' = sessions \cup {o.user.id}
             /\ SetCall(c, [r EXCEPT !.pc = "signUpProfile", !.user = o.user.id,
                              !.ev = [user |-> o.user, session |-> TRUE],
                              !.effects = @ \cup {Effect("sessions", "insert", o.user.id)}])
          \/ /\ o.kind = "throw"
             /\ UNCHANGED <<accounts, sessions>>
             /\ SetCall(c, Done(Noted(r, o), LoginCatch(o.fault)))

\* revalidatePath('/', 'layout') and the success result with a session
SignedUp(r) ==
  Done([r EXCEPT !.revalidated = TRUE], OkMsg(NoData, "Account created successfully"))

\* the profile of the new user, from the validated names; a reported error
\* is logged only
SignUpProfile(c) ==
  LET r == calls[c]
      row == [id |-> r.user, first_name |-> r.input.firstName,
              last_name |-> r.input.lastName]
  IN /\ r.pc = "signUpProfile"
     /\ UNCHANGED <<variant, accounts, sessions, events, venues, links,
                    nextEventId, nextVenueId>>
     /\ \E o \in StorageOutcomes :
          \/ /\ o.kind = "ok" /\ \A p \in profiles : p.id # row.id
             /\ profiles' = profiles \cup {row}
             /\ SetCall(c, SignedUp([r EXCEPT !.effects =
                                       @ \cup {Effect("profiles", "insert", row.id)}]))
          \/ /\ o.kind = "error" \/ (o.kind = "ok" /\ \E p \in profiles : p.id = row.id)
             /\ profiles' = profiles
             /\ SetCall(c, SignedUp(Noted(r, [kind |-> "error"])))
          \/ /\ o.kind = "throw"
             /\ profiles' = profiles
             /\ SetCall(c, Done(Noted(r, o), LoginCatch(o.fault)))

(* loginAction *)
\* the errors signInWithPassword can report for these credentials
SignInErrors(email, password) ==
  {"Request rate limit reached"}
    \cup (IF \E a \in accounts : a.email = email /\ a.password = password
          THEN {}
          ELSE {"Invalid login credentials"})
    \cup (IF \E a \in accounts : a.email = email /\ a.password = password /\ ~a.confirmed
          THEN {"Email not confirmed"}
          ELSE {})

\* the answers of signInWithPassword: {data, error}, or a throw
SignInOutcomes(email, password) ==
  {[kind |-> "error", message |-> m] : m \in SignInErrors(email, password)}
    \cup {[kind |-> "throw", fault |-> f] : f \in Faults}
    \cup {[kind |-> "ok", user |-> a, session |-> b] :
            a \in {x \in accounts : x.email = email /\ x.password = password /\ x.confirmed},
            b \in BOOLEAN}

LoginArgs ==
  {Obj([email |-> e, password |-> p]) :
     e \in EmailStrings \cup {"not-an-email"}, p \in {"password-1", "password-2", ""}}
    \cup {Obj([password |-> "password-1"]), Obj([email |-> NotAString, password |-> "password-1"])}

\* loginSchema.safeParse(input), then the try block up to the sign-in
InvokeLogin(c) ==
  /\ calls[c].pc = "idle"
  /\ requests < MaxRequests
  /\ requests' = requests + 1
  /\ \E arg \in LoginArgs :
       LET issues == loginSchema(arg.obj)
           r == [IdleCall EXCEPT !.op = "login", !.arg = arg, !.parsed = TRUE]
       IN calls' = [calls EXCEPT ![c] =
            IF issues # <<>>
            THEN Done(r, ErrFields(ValidationFailed, FlattenFieldErrors(issues)))
            ELSE [r EXCEPT !.pc = "signIn", !.invoked = TRUE,
                           !.input = [email |-> arg.obj.email, password |-> arg.obj.password]]]
  /\ UNCHANGED <<variant, accounts, profiles, sessions, events, venues, links,
                 nextEventId, nextVenueId>>

\* fault injection: the sign-in error's own message is passed on, as
\* logoutAction does with the sign-out error
SignInLeaky(c) ==
  LET r == calls[c]
  IN /\ r.pc = "signIn"
     /\ UNCHANGED <<variant, accounts, profiles, events, venues, links,
                    nextEventId, nextVenueId>>
     /\ \E o \in SignInOutcomes(r.input.email, r.input.password) :
          \/ /\ o.kind = "error"
             /\ sessions' = sessions
             /\ SetCall(c, Done([r EXCEPT !.ev = [error |-> o.message], !.fault = "error"],
                                LoginCatch(NewError(o.message))))
          \/ /\ o.kind = "ok" /\ ~o.session
             /\ sessions' = sessions
             /\ SetCall(c, Done([r EXCEPT !.ev = [user |-> o.user, session |-> FALSE]],
                                LoginCatch(NewError("Failed to create session"))))
          \/ /\ o.kind = "ok" /\ o.session
             /\ sessions' = sessions \cup {o.user.id}
             /\ SetCall(c, [r EXCEPT !.pc = "fetchProfile", !.user = o.user.id,
                              !.ev = [user |-> o.user, session |-> TRUE],
                              !.effects = @ \cup {Effect("sessions", "insert", o.user.id)}])
          \/ /\ o.kind = "throw"
             /\ sessions' = sessions
             /\ SetCall(c, Done(Noted(r, o), LoginCatch(o.fault)))

\* supabase.auth.signInWithPassword and the two checks of its answer
SignIn(c) ==
  LET r == calls[c]
  IN /\ r.pc = "signIn"
     /\ UNCHANGED <<variant, accounts, profiles, events, venues, links,
                    nextEventId, nextVenueId>>
     /\ \E o \in SignInOutcomes(r.input.email, r.input.password) :
          \/ /\ o.kind = "error"
             /\ sessions' = sessions
             /\ SetCall(c, Done([r EXCEPT !.ev = [error |-> o.message], !.fault = "error"],
                                LoginCatch(NewError("Invalid email or password"))))
          \/ /\ o.kind = "ok" /\ ~o.session
             /\ sessions' = sessions
             /\ SetCall(c, Done([r EXCEPT !.ev = [user |-> o.user, session |-> FALSE]],
                                LoginCatch(NewError("Failed to create session"))))
          \/ /\ o.kind = "ok" /\ o.session
             /\ sessions' = sessions \cup {o.user.id}
             /\ SetCall(c, [r EXCEPT !.pc = "fetchProfile", !.user = o.user.id,
                              !.ev = [user |-> o.user, session |-> TRUE],
                              !.effects = @ \cup {Effect("sessions", "insert", o.user.id)}])
          \/ /\ o.kind = "throw"
             /\ sessions' = sessions
             /\ SetCall(c, Done(Noted(r, o), LoginCatch(o.fault)))

\* revalidatePath('/', 'layout') and the success result
LoggedIn(r) ==
  Done([r EXCEPT !.revalidated = TRUE], OkMsg(NoData, "Logged in successfully"))

\* the safety check: look the profile up; a reported error leaves it null,
\* and a profile is inserted only for a first name in the metadata
FetchProfile(c) ==
  LET r == calls[c]
      found == {p \in profiles : p.id = r.user}
  IN /\ r.pc = "fetchProfile"
     /\ UNCHANGED <<variant, accounts, profiles, sessions, events, venues, links,
                    nextEventId, nextVenueId>>
     /\ \E o \in StorageOutcomes :
          \/ /\ o.kind = "ok" /\ found # {}
             /\ SetCall(c, LoggedIn(r))
          \/ /\ o.kind = "error" \/ (o.kind = "ok" /\ found = {})
             /\ SetCall(c, IF MetaText(r.ev.user.user_metadata, "first_name") # ""
                           THEN [Noted(r, o) EXCEPT !.pc = "insertProfile"]
                           ELSE LoggedIn(Noted(r, o)))
          \/ /\ o.kind = "throw"
             /\ SetCall(c, Done(Noted(r, o), LoginCatch(o.fault)))

\* insert the profile from the user's metadata; errors are ignored
InsertProfile(c) ==
  LET r == calls[c]
      row == [id |-> r.user, first_name |-> r.ev.user.user_metadata.first_name,
              last_name |-> MetaText(r.ev.user.user_metadata, "last_name")]
  IN /\ r.pc = "insertProfile"
     /\ UNCHANGED <<variant, accounts, sessions, events, venues, links,
                    nextEventId, nextVenueId>>
     /\ \E o \in StorageOutcomes :
          \/ /\ o.kind = "ok" /\ \A p \in profiles : p.id # row.id
             /\ profiles' = profiles \cup {row}
             /\ SetCall(c, LoggedIn([r EXCEPT !.effects =
                                       @ \cup {Effect("profiles", "insert", row.id)}]))
          \/ /\ o.kind = "error" \/ (o.kind = "ok" /\ \E p \in profiles : p.id = row.id)
             /\ profiles' = profiles
             /\ SetCall(c, LoggedIn(Noted(r, [kind |-> "error"])))
          \/ /\ o.kind = "throw"
             /\ profiles' = profiles
             /\ SetCall(c, Done(Noted(r, o), LoginCatch(o.fault)))

(* logoutAction *)
\* the caller holds the session of a signed-in user, or none
InvokeLogout(c) ==
  /\ calls[c].pc = "idle"
  /\ requests < MaxRequests
  /\ requests' = requests + 1
  /\ \E u \in sessions \cup {NoUser} :
       calls' = [calls EXCEPT ![c] =
         [IdleCall EXCEPT !.op = "logout", !.pc = "signOut", !.user = u, !.invoked = TRUE]]
  /\ UNCHANGED <<variant, accounts, profiles, sessions, events, venues, links,
                 nextEventId, nextVenueId>>

\* supabase.auth.signOut ends the caller's session; its error is thrown on
\* with its own message
SignOut(c) ==
  LET r == calls[c]
  IN /\ r.pc = "signOut"
     /\ UNCHANGED <<variant, accounts, profiles, events, venues, links,
                    nextEventId, nextVenueId>>
     /\ \/ /\ sessions' = sessions \ {r.user}
           /\ SetCall(c, Done([r EXCEPT !.revalidated = TRUE,
                                 !.effects = {Effect("sessions", "delete", u) :
                                                u \in sessions \cap {r.user}}],
                              OkMsg(NoData, "Logged out successfully")))
        \/ /\ sessions' = sessions
           /\ \E m \in {"Request rate limit reached"} :
                SetCall(c, Done([r EXCEPT !.ev = [error |-> m], !.fault = "error"],
                                LoginCatch(NewError(m))))
        \/ /\ sessions' = sessions
           /\ \E f \in Faults :
                SetCall(c, Done([r EXCEPT !.fault = "throw"], LoginCatch(f)))

(* GET /auth/callback *)
NameTexts == {"", "Ann", "Lee", "Ann Lee", "Lee Roy", " Ann  Lee Roy ", "Cher", "   "}

\* the text of a run of characters
Str(cs) == CHOOSE s \in NameTexts : Chars(s) = cs

\* split(/\s+/) of a trimmed text; the one empty part of '' is left out
RECURSIVE Words(_)
Words(cs) ==
  IF cs = <<>> THEN <<>>
  ELSE LET gaps == {j \in 1..Len(cs) : cs[j] = " "}
           n == IF gaps = {} THEN Len(cs) + 1 ELSE CHOOSE j \in gaps : \A k \in gaps : j <= k
       IN <<SubSeq(cs, 1, n - 1)>> \o Words(TrimStart(SubSeq(cs, n, Len(cs))))

\* join(' ')
RECURSIVE JoinWords(_)
JoinWords(ws) ==
  IF ws = <<>> THEN <<>>
  ELSE IF Len(ws) = 1 THEN ws[1]
  ELSE ws[1] \o <<" ">> \o JoinWords(Tail(ws))

\* fullName.trim().split(/\s+/): the first part, and the rest joined
SplitName(s) ==
  LET nameParts == Words(Trim(Chars(s)))
  IN IF nameParts = <<>> THEN [first |-> "", last |-> ""]
     ELSE [first |-> Str(nameParts[1]), last |-> Str(JoinWords(Tail(nameParts)))]

\* firstName and lastName of the callback; first is '' where the code
\* leaves firstName null
ProfileNames(md) ==
  IF MetaText(md, "first_name") # "" /\ MetaText(md, "last_name") # ""
  THEN [first |-> md.first_name, last |-> md.last_name]
  ELSE IF MetaText(md, "full_name") # "" THEN SplitName(md.full_name)
  ELSE IF MetaText(md, "name") # "" THEN SplitName(md.name)
  ELSE [first |-> "", last |-> ""]

\* the repository holds the route twice: one exchanges the code only, the
\* other also creates the profile; a request is served by either
CallbackRoutes == {"exchange", "profile"}

NoCode == [provider |-> "none"]

GoogleMetadata ==
  {[full_name |-> " Ann  Lee Roy "], [full_name |-> "   ", name |-> "Cher"],
   [name |-> "Cher"], <<>>}

\* the code of a confirmation link, or of a Google sign-in with the
\* metadata Google sends
CallbackArgs ==
  {NoCode}
    \cup {[provider |-> "email", email |-> e, user_metadata |-> <<>>] : e \in EmailStrings}
    \cup {[provider |-> "google", email |-> e, user_metadata |-> m] :
            e \in EmailStrings, m \in GoogleMetadata}

Redirect(path) == [redirect |-> path]

\* the handler has no catch: a throw leaves it
Thrown(fault) == [thrown |-> fault]

\* the answers of exchangeCodeForSession: the account of the address, now
\* confirmed, or the account a first Google sign-in creates
ExchangeOutcomes(code) ==
  LET known == {a \in accounts : a.email = code.email}
  IN {[kind |-> "error"]}
       \cup {[kind |-> "throw", fault |-> f] : f \in Faults}
       \cup {[kind |-> "ok", user |-> [a EXCEPT !.confirmed = TRUE]] : a \in known}
       \cup (IF known = {} /\ code.provider = "google"
             THEN {[kind |-> "ok",
                    user |-> [id |-> AccountId(code.email), email |-> code.email,
                              password |-> NoPassword, confirmed |-> TRUE,
                              user_metadata |-> code.user_metadata]]}
             ELSE {})

\* searchParams.get('code'); without a code the handler redirects at once
InvokeCallback(c) ==
  /\ calls[c].pc = "idle"
  /\ requests < MaxRequests
  /\ requests' = requests + 1
  /\ \E code \in CallbackArgs : \E route \in CallbackRoutes :
       LET r == [IdleCall EXCEPT !.op = "callback", !.invoked = TRUE,
                                 !.input = [code |-> code, route |-> route]]
       IN calls' = [calls EXCEPT ![c] =
            IF code = NoCode THEN Done(r, Redirect("/dashboard"))
            ELSE [r EXCEPT !.pc = "exchange"]]
  /\ UNCHANGED <<variant, accounts, profiles, sessions, events, venues, links,
                 nextEventId, nextVenueId>>

\* supabase.auth.exchangeCodeForSession(code)
Exchange(c) ==
  LET r == calls[c]
  IN /\ r.pc = "exchange"
     /\ UNCHANGED <<variant, profiles, events, venues, links, nextEventId, nextVenueId>>
     /\ \E o \in ExchangeOutcomes(r.input.code) :
          \/ /\ o.kind = "error"
             /\ UNCHANGED <<accounts, sessions>>
             /\ SetCall(c, Done(Noted(r, o), Redirect("/auth/login?error=auth_callback_failed")))
          \/ /\ o.kind = "throw"
             /\ UNCHANGED <<accounts, sessions>>
             /\ SetCall(c, Done(Noted(r, o), Thrown(o.fault)))
          \/ /\ o.kind = "ok"
             /\ accounts' = {a \in accounts : a.email # o.user.email} \cup {o.user}
             /\ sessions' = sessions \cup {o.user.id}
             /\ LET q == [r EXCEPT !.user = o.user.id,
                                   !.ev = [user |-> o.user, session |-> TRUE],
                                   !.effects = @ \cup {Effect("sessions", "insert", o.user.id)}]
                IN SetCall(c, IF r.input.route = "exchange"
                              THEN Done(q, Redirect("/dashboard"))
                              ELSE [q EXCEPT !.pc = "callbackProfile"])

\* look the profile up; without one, and with a first name, insert it
CallbackProfile(c) ==
  LET r == calls[c]
      found == {p \in profiles : p.id = r.user}
  IN /\ r.pc = "callbackProfile"
     /\ UNCHANGED <<variant, accounts, profiles, sessions, events, venues, links,
                    nextEventId, nextVenueId>>
     /\ \E o \in StorageOutcomes :
          \/ /\ o.kind = "ok" /\ found # {}
             /\ SetCall(c, Done(r, Redirect("/dashboard")))
          \/ /\ o.kind = "error" \/ (o.kind = "ok" /\ found = {})
             /\ SetCall(c, IF ProfileNames(r.ev.user.user_metadata).first # ""
                           THEN [Noted(r, o) EXCEPT !.pc = "callbackInsert"]
                           ELSE Done(Noted(r, o), Redirect("/dashboard")))
          \/ /\ o.kind = "throw"
             /\ SetCall(c, Done(Noted(r, o), Thrown(o.fault)))

\* insert the profile; a reported error is logged only
CallbackInsert(c) ==
  LET r == calls[c]
      names == ProfileNames(r.ev.user.user_metadata)
      row == [id |-> r.user, first_name |-> names.first, last_name |-> names.last]
  IN /\ r.pc = "callbackInsert"
     /\ UNCHANGED <<variant, accounts, sessions, events, venues, links,
                    nextEventId, nextVenueId>>
     /\ \E o \in StorageOutcomes :
          \/ /\ o.kind = "ok" /\ \A p \in profiles : p.id # row.id
             /\ profiles' = profiles \cup {row}
             /\ SetCall(c, Done([r EXCEPT !.effects =
                                   @ \cup {Effect("profiles", "insert", row.id)}],
                                Redirect("/dashboard")))
          \/ /\ o.kind = "error" \/ (o.kind = "ok" /\ \E p \in profiles : p.id = row.id)
             /\ profiles' = profiles
             /\ SetCall(c, Done(Noted(r, [kind |-> "error"]), Redirect("/dashboard")))
          \/ /\ o.kind = "throw"
             /\ profiles' = profiles
             /\ SetCall(c, Done(Noted(r, o), Thrown(o.fault)))

LoginNext ==
  \/ InvokeSignUp("c1")
  \/ SignUp("c1")
  \/ SignUpProfile("c1")
  \/ InvokeLogin("c1")
  \/ SignIn("c1")
  \/ FetchProfile("c1")
  \/ InsertProfile("c1")
  \/ InvokeLogout("c1")
  \/ SignOut("c1")
  \/ InvokeCallback("c1")
  \/ Exchange("c1")
  \/ CallbackProfile("c1")
  \/ CallbackInsert("c1")
  \/ Return("c1")

LoginSpec == Init /\ [][LoginNext]_vars

InvalidCredentials == "Invalid email or password"

\* a login is done
LoginDone(r) == r.pc = "done" /\ r.op = "login"

\* C30: loginAction answers every sign-in error the identity service reports
\* with the one error result 'Invalid email or password', whatever the error
\* and whatever the credentials; it returns a success result only when the
\* sign-in answered with a session, which is then established.
C30_LoginErrorsAreUniform ==
  \A c \in Calls :
    LET r == calls[c]
    IN LoginDone(r) =>
         /\ Has(r.ev, "error") => r.result = Err(InvalidCredentials)
         /\ r.result.success =>
              /\ Has(r.ev, "session") /\ r.ev.session
              /\ r.ev.user.id \in sessions
              /\ Effect("sessions", "insert", r.ev.user.id) \in r.effects

\* the service reported 'Email not confirmed' for the right password of an
\* account, and the caller got the uniform error
C30_Witness ==
  \E c \in Calls :
    LET r == calls[c]
    IN /\ LoginDone(r)
       /\ Has(r.ev, "error") /\ r.ev.error = "Email not confirmed"
       /\ \E a \in accounts : a.email = r.input.email /\ a.password = r.input.password
       /\ r.result = Err(InvalidCredentials)

====
